---- MODULE Spec2Model ----
(***************************************************************************)
(* A model of the comparison core of ohsee: the shift-tolerant pixel diff  *)
(* (src/src/analyze/pixel.ts), the CSS class style extractor               *)
(* (src/src/capture/extract.ts), the structural differ                     *)
(* (src/src/analyze/structural.ts) and the compare command that runs them  *)
(* (src/src/bin/cli.ts, runCompare).                                       *)
(*                                                                         *)
(* Each of the first three is a pure batch computation.  Each gets a       *)
(* specification of its own whose Init draws the inputs from bounded sets  *)
(* and whose actions are the steps of the computation:                     *)
(*   SpecPixel   analyzePixels: normalise, one step per strip, aggregate   *)
(*   SpecCss     parseClassStylesFromCss on generated stylesheets          *)
(*   SpecStruct  analyzeStructural on generated documents                  *)
(*   SpecWalk    walkCssRules, one loop iteration per step, on short texts *)
(*               with unbalanced braces and on sheets of several rules     *)
(*   SpecCompare the compare command: option validation, then runCompare   *)
(*   SpecCapture captureScreenshots / extractStructural: the browser, one  *)
(*               context per viewport, the callbacks running concurrently  *)
(* The variables of the other computations stay at their idle values.      *)
(***************************************************************************)
EXTENDS Integers, Sequences, FiniteSets, TLC

VARIABLES
    \* ---- pixel diff (pixel.ts) ----
    STRIP_HEIGHT,   \* pixel.ts:92, tunable (spec 6); drawn from 1..MaxStripHeight
    MAX_SHIFT,      \* pixel.ts:96
    COARSE_X,       \* pixel.ts:99
    COARSE_Y,       \* pixel.ts:100
    pc,             \* position in analyzePixels: "start", "strips", "done", "idle"
    beforePng,      \* decoded first bitmap
    afterPng,       \* decoded second bitmap
    paddedBefore,   \* padToSize(beforePng, maxWidth, maxHeight)
    paddedAfter,    \* padToSize(afterPng,  maxWidth, maxHeight)
    stripY,         \* loop variable of the strip loop
    totalChanged,   \* running sum of pixelmatch results
    offsets,        \* offset returned by findBestOffset, one per strip processed
    stripCounts,    \* pixelmatch result, one per strip processed
    diff,           \* the diff image's pixels
    result,         \* the PixelAnalysis returned
    \* ---- class style extraction (extract.ts) ----
    cssPc,          \* "input", "parsed", "idle"
    cssInput,       \* what the stylesheet was generated from
    sheet,        \* the stylesheet text handed to parseClassStylesFromCss
    cssDepth,       \* the number of at-rule blocks around the generated text
    classStyles,    \* the ClassStyleMap returned
    walkStack,      \* walkCssRules: the active calls, innermost first
    walkRules,      \* walkCssRules: the (selector, body) pairs yielded so far
    \* ---- structural diff (structural.ts) ----
    structPc,       \* position in analyzeStructural, "threw" when it threw
    beforeSnapshot, \* the first StructuralSnapshot: parsed rawHtml, class styles
    afterSnapshot,  \* the second StructuralSnapshot
    analysis,       \* the StructuralAnalysis being built
    \* ---- compare command (cli.ts, runCompare) ----
    cmpPc,          \* position in the command, "exit_..." or "failed" when it exits 1
    options,        \* command line and environment: noAi, keySet, urlsValid, viewports
    pages,          \* what the two URLs serve and what the analyses return for them
    calls,          \* the functions runCompare has called, in order
    report,         \* the CompareReport built, and whether it was written
    \* ---- browser captures (screenshot.ts, extract.ts) ----
    capPc,          \* position in captureScreenshots / extractStructural
    tasks,          \* per viewport: position of its callback and state of its context
    browser         \* the launched browser: close() calls, what close() found running

pixelVars == <<STRIP_HEIGHT, MAX_SHIFT, COARSE_X, COARSE_Y, pc, beforePng, afterPng,
               paddedBefore, paddedAfter, stripY, totalChanged, offsets,
               stripCounts, diff, result>>

cssVars == <<cssPc, cssInput, sheet, cssDepth, classStyles, walkStack, walkRules>>

structVars == <<structPc, beforeSnapshot, afterSnapshot, analysis>>

cmpVars == <<cmpPc, options, pages, calls, report>>

capVars == <<capPc, tasks, browser>>

vars == <<pixelVars, cssVars, structVars, cmpVars, capVars>>

(***************************************************************************)
(* Bounds of the model.                                                    *)
(***************************************************************************)
MaxW == 2
MaxH == 3
MaxArea == 4
MaxStripHeight == 2
MaxMaxShift == 2
MaxCoarse == 2

Max(a, b) == IF a >= b THEN a ELSE b
Min(a, b) == IF a <= b THEN a ELSE b
Abs(a) == IF a < 0 THEN -a ELSE a

(***************************************************************************)
(* Bitmaps.  A pixel is its four bytes <<r, g, b, a>>; a bitmap's data is  *)
(* the row-major sequence of its pixels, so that the pixel at (x, y) is    *)
(* data[y * width + x + 1] (the byte index (y * width + x) * 4 of the      *)
(* source, in pixels, 1-based).  The model's bitmaps use two colours.      *)
(***************************************************************************)
Black == <<0, 0, 0, 255>>
White == <<255, 255, 255, 255>>
Palette == {Black, White}

BitmapsOf(w, h) == [width : {w}, height : {h}, data : [1..(w * h) -> Palette]]
Bitmaps ==
    UNION {BitmapsOf(d[1], d[2]) :
             d \in {e \in (0..MaxW) \X (0..MaxH) : e[1] * e[2] <= MaxArea}}

PixelAt(png, x, y) == png.data[y * png.width + x + 1]

NoBitmap == [width |-> 0, height |-> 0, data |-> <<>>]

\* PNG.bitblt(src, dst, 0, 0, w, h, 0, 0): copies the w x h rectangle at the
\* origin of src to the origin of dst, each row at the row stride of its image.
bitblt(src, dstData, dstWidth, w, h) ==
    [i \in 1..Len(dstData) |->
        LET x == (i - 1) % dstWidth
            y == (i - 1) \div dstWidth
        IN  IF x < w /\ y < h THEN src.data[y * src.width + x + 1] ELSE dstData[i]]

\* A plausible slip: the destination written at the source's row stride.
padToSizeSrcStride(png, targetWidth, targetHeight) ==
    IF png.width = targetWidth /\ png.height = targetHeight THEN png
    ELSE [width |-> targetWidth, height |-> targetHeight,
          data |-> [i \in 1..(targetWidth * targetHeight) |->
                      IF i <= png.width * png.height THEN png.data[i] ELSE White]]

\* A plausible slip: the earlier padToHeight (pixel.ts:13-22), which pads rows only.
padToSizeHeightOnly(png, targetWidth, targetHeight) ==
    IF png.height >= targetHeight THEN png
    ELSE [width |-> png.width, height |-> targetHeight,
          data |-> bitblt(png, [i \in 1..(png.width * targetHeight) |-> White],
                          png.width, png.width, png.height)]

\* pixel.ts:106-112
padToSize(png, targetWidth, targetHeight) ==
    IF png.width = targetWidth /\ png.height = targetHeight THEN png
    ELSE [width |-> targetWidth, height |-> targetHeight,
          data |-> bitblt(png, [i \in 1..(targetWidth * targetHeight) |-> White],
                          targetWidth,
                          Min(png.width, targetWidth), Min(png.height, targetHeight))]

\* A plausible slip: the strip always taken from the top of the image.
getStripBufferFromTop(data, width, y, h) ==
    SubSeq(data, 1, h * width)

\* pixel.ts:118-121: the rows [y, y + h) of data, as a sequence of pixels.
getStripBuffer(data, width, y, h) ==
    SubSeq(data, y * width + 1, (y + h) * width)

(***************************************************************************)
(* The similarity score.  A score is Infinity or the quotient sum / count, *)
(* kept as the pair [sum, count] and compared by cross-multiplication.     *)
(***************************************************************************)
Infinity == [inf |-> TRUE, sum |-> 0, count |-> 0]
Score(sum, count) == [inf |-> FALSE, sum |-> sum, count |-> count]

\* a < b on scores (JavaScript's < on numbers, Infinity included)
ScoreLess(a, b) ==
    IF a.inf THEN FALSE
    ELSE IF b.inf THEN TRUE
    ELSE a.sum * b.count < b.sum * a.count

ScoreLeq(a, b) == ~ScoreLess(b, a)

IsZeroScore(a) == ~a.inf /\ a.sum = 0

\* The sample points of the two nested loops of computeStripSAD.
SampleRows(actualH) == {dy \in 0..(actualH - 1) : dy % COARSE_Y = 0}
SampleCols(w) == {x \in 0..(w - 1) : x % COARSE_X = 0}

RECURSIVE SumOver(_, _)
SumOver(S, f) ==
    IF S = {} THEN 0
    ELSE LET e == CHOOSE e \in S : TRUE IN f[e] + SumOver(S \ {e}, f)

\* pixel.ts:127-149
computeStripSAD(aData, aWidth, aY, bData, bWidth, bY, stripH, maxH) ==
    LET actualH == Min(stripH, Min(maxH - aY, maxH - bY)) IN
    IF actualH <= 0 THEN Infinity
    ELSE
        LET w == Min(aWidth, bWidth)
            points == SampleRows(actualH) \X SampleCols(w)
            d == [p \in points |->
                    LET a == aData[(aY + p[1]) * aWidth + p[2] + 1]
                        b == bData[(bY + p[1]) * bWidth + p[2] + 1]
                    IN  Abs(a[1] - b[1]) + Abs(a[2] - b[2]) + Abs(a[3] - b[3])]
            count == 3 * Cardinality(points)
        IN  IF count > 0 THEN Score(SumOver(points, d), count) ELSE Infinity

\* The score findBestOffset gives candidate dy (pixel.ts:172-178), and whether
\* the candidate passes the bounds test of pixel.ts:173.
InBounds(afterH, stripH, sY, dy) ==
    ~(sY + dy < 0 \/ sY + dy + stripH > afterH)

CandidateSAD(beforeData, width, beforeH, afterData, afterH, sY, dy) ==
    computeStripSAD(beforeData, width, sY, afterData, width, sY + dy,
                    Min(STRIP_HEIGHT, beforeH - sY), Min(beforeH, afterH))

\* The loop of pixel.ts:171-183 from dy on, with the best so far.
RECURSIVE findBestLoop(_, _, _, _, _, _, _, _, _)
findBestLoop(beforeData, width, beforeH, afterData, afterH, sY, dy, bestOffset, bestSAD) ==
    IF dy > MAX_SHIFT THEN bestOffset
    ELSE
        LET stripH == Min(STRIP_HEIGHT, beforeH - sY) IN
        IF ~InBounds(afterH, stripH, sY, dy)
        THEN findBestLoop(beforeData, width, beforeH, afterData, afterH, sY,
                          dy + 1, bestOffset, bestSAD)
        ELSE
            LET sad == CandidateSAD(beforeData, width, beforeH, afterData, afterH, sY, dy) IN
            IF ScoreLess(sad, bestSAD)
            THEN findBestLoop(beforeData, width, beforeH, afterData, afterH, sY,
                              dy + 1, dy, sad)
            ELSE findBestLoop(beforeData, width, beforeH, afterData, afterH, sY,
                              dy + 1, bestOffset, bestSAD)

\* A plausible slip: `sad <= bestSAD`, which keeps the last minimum.
RECURSIVE findBestLoopLeq(_, _, _, _, _, _, _, _, _)
findBestLoopLeq(beforeData, width, beforeH, afterData, afterH, sY, dy, bestOffset, bestSAD) ==
    IF dy > MAX_SHIFT THEN bestOffset
    ELSE
        LET stripH == Min(STRIP_HEIGHT, beforeH - sY) IN
        IF ~InBounds(afterH, stripH, sY, dy)
        THEN findBestLoopLeq(beforeData, width, beforeH, afterData, afterH, sY,
                             dy + 1, bestOffset, bestSAD)
        ELSE
            LET sad == CandidateSAD(beforeData, width, beforeH, afterData, afterH, sY, dy) IN
            IF ScoreLeq(sad, bestSAD)
            THEN findBestLoopLeq(beforeData, width, beforeH, afterData, afterH, sY,
                                 dy + 1, dy, sad)
            ELSE findBestLoopLeq(beforeData, width, beforeH, afterData, afterH, sY,
                                 dy + 1, bestOffset, bestSAD)

findBestOffsetLeq(beforeData, width, beforeH, afterData, afterH, sY) ==
    findBestLoopLeq(beforeData, width, beforeH, afterData, afterH, sY,
                    -MAX_SHIFT, 0, Infinity)

\* A plausible slip: the scan starting at offset 0 instead of -MAX_SHIFT.
findBestOffsetFromZero(beforeData, width, beforeH, afterData, afterH, sY) ==
    findBestLoop(beforeData, width, beforeH, afterData, afterH, sY,
                 0, 0, Infinity)

\* pixel.ts:162-185
findBestOffset(beforeData, width, beforeH, afterData, afterH, sY) ==
    findBestLoop(beforeData, width, beforeH, afterData, afterH, sY,
                 -MAX_SHIFT, 0, Infinity)

(***************************************************************************)
(* pixelmatch (the library the strip comparator calls, pixel.ts:221-233),  *)
(* by its contract (spec 4.3): a pixel counts as changed when its colour   *)
(* distance exceeds the threshold and it is not anti-aliasing noise.       *)
(* Between the two colours of the palette the distance exceeds the         *)
(* threshold 0.1, and a pixel is anti-aliased only if it has both a darker *)
(* and a brighter neighbour, which two brightness levels never give: the   *)
(* count is that of the positions where the strips differ.  The diff strip *)
(* marks each pixel "diff" (the highlight colour) or "same" (grey).        *)
(***************************************************************************)
\* A plausible slip: a differing pixel counted twice.
pixelmatchCountTwice(img1, img2) ==
    2 * Cardinality({i \in 1..Len(img1) : img1[i] # img2[i]})

pixelmatchCount(img1, img2) ==
    Cardinality({i \in 1..Len(img1) : img1[i] # img2[i]})

pixelmatchDiff(img1, img2) ==
    [i \in 1..Len(img1) |-> IF img1[i] # img2[i] THEN "diff" ELSE "same"]

(***************************************************************************)
(* analyzePixels (pixel.ts:187-253)                                        *)
(***************************************************************************)
maxWidth == Max(beforePng.width, afterPng.width)
maxHeight == Max(beforePng.height, afterPng.height)

\* pixel.ts:215
alignedAfterY(maxH, stripH, sY, offset) ==
    Max(0, Min(maxH - stripH, sY + offset))

\* The changed count of the strip at sY compared at the given offset
\* (pixel.ts:215-233).
StripChangedAt(pb, pa, sY, offset) ==
    LET stripH == Min(STRIP_HEIGHT, pb.height - sY)
        aY == alignedAfterY(pb.height, stripH, sY, offset)
    IN  pixelmatchCount(getStripBuffer(pb.data, pb.width, sY, stripH),
                        getStripBuffer(pa.data, pb.width, aY, stripH))

(***************************************************************************)
(* Text.  A string is the sequence of its characters (one-character        *)
(* strings); positions are 0-based as in the source, so that the character *)
(* text[j] of the source is text[j + 1] here.                              *)
(***************************************************************************)
Letters == {"a", "b", "c", "d", "e", "f", "g", "h", "i", "j", "k", "l", "m",
            "n", "o", "p", "q", "r", "s", "t", "u", "v", "w", "x", "y", "z",
            "A", "B", "C", "D", "E", "F", "G", "H", "I", "J", "K", "L", "M",
            "N", "O", "P", "Q", "R", "S", "T", "U", "V", "W", "X", "Y", "Z"}
Digits == {"0", "1", "2", "3", "4", "5", "6", "7", "8", "9"}
\* white space: what trim() removes and the expressions' space class matches
IsSpace(c) == c \in {" ", "\n", "\t"}
\* a word character or a hyphen (the character class of extract.ts:102, 127)
IsWordOrHyphen(c) == c \in Letters \cup Digits \cup {"_", "-"}

\* text.slice(from, to)
Slice(text, from, to) ==
    LET a == Min(Max(from, 0), Len(text))
        b == Min(Max(to, 0), Len(text))
    IN  IF b <= a THEN <<>> ELSE SubSeq(text, a + 1, b)

\* text.slice(from)
SliceFrom(text, from) == Slice(text, from, Len(text))

\* The least member of a non-empty set of integers.
Least(S) == CHOOSE k \in S : \A j \in S : k <= j

\* text.indexOf(c, from) for a one-character c
IndexOf(text, c, from) ==
    LET hits == {k \in Max(from, 0)..(Len(text) - 1) : text[k + 1] = c} IN
    IF hits = {} THEN -1 ELSE Least(hits)

\* text.startsWith(prefix)
StartsWith(text, prefix) ==
    Len(text) >= Len(prefix) /\ SubSeq(text, 1, Len(prefix)) = prefix

\* text.trim()
RECURSIVE TrimLeft(_)
TrimLeft(text) ==
    IF text # <<>> /\ IsSpace(Head(text)) THEN TrimLeft(Tail(text)) ELSE text
RECURSIVE TrimRight(_)
TrimRight(text) ==
    IF text # <<>> /\ IsSpace(text[Len(text)])
    THEN TrimRight(SubSeq(text, 1, Len(text) - 1)) ELSE text
Trim(text) == TrimRight(TrimLeft(text))

\* text.split(c) for a one-character c: the pieces between the occurrences
RECURSIVE Split(_, _)
Split(text, c) ==
    LET k == IndexOf(text, c, 0) IN
    IF k = -1 THEN <<text>>
    ELSE <<Slice(text, 0, k)>> \o Split(SliceFrom(text, k + 1), c)

\* The texts of a sequence one after the other.
RECURSIVE Concat(_)
Concat(texts) ==
    IF texts = <<>> THEN <<>>
    ELSE IF Len(texts) = 1 THEN Head(texts)
    ELSE LET h == Len(texts) \div 2
         IN  Concat(SubSeq(texts, 1, h)) \o Concat(SubSeq(texts, h + 1, Len(texts)))

(***************************************************************************)
(* The property allow-list (extract.ts:8-46).                              *)
(***************************************************************************)

CLASS_STYLE_PROPS ==
    {<<"c", "o", "l", "o", "r">>,
     <<"b", "a", "c", "k", "g", "r", "o", "u", "n", "d", "-", "c", "o", "l", "o", "r">>,
     <<"f", "o", "n", "t", "-", "s", "i", "z", "e">>,
     <<"f", "o", "n", "t", "-", "w", "e", "i", "g", "h", "t">>,
     <<"p", "a", "d", "d", "i", "n", "g", "-", "t", "o", "p">>,
     <<"p", "a", "d", "d", "i", "n", "g", "-", "r", "i", "g", "h", "t">>,
     <<"p", "a", "d", "d", "i", "n", "g", "-", "b", "o", "t", "t", "o", "m">>,
     <<"p", "a", "d", "d", "i", "n", "g", "-", "l", "e", "f", "t">>,
     <<"m", "a", "r", "g", "i", "n", "-", "t", "o", "p">>,
     <<"m", "a", "r", "g", "i", "n", "-", "r", "i", "g", "h", "t">>,
     <<"m", "a", "r", "g", "i", "n", "-", "b", "o", "t", "t", "o", "m">>,
     <<"m", "a", "r", "g", "i", "n", "-", "l", "e", "f", "t">>,
     <<"m", "a", "x", "-", "w", "i", "d", "t", "h">>,
     <<"m", "i", "n", "-", "h", "e", "i", "g", "h", "t">>,
     <<"d", "i", "s", "p", "l", "a", "y">>,
     <<"f", "l", "e", "x", "-", "d", "i", "r", "e", "c", "t", "i", "o", "n">>,
     <<"j", "u", "s", "t", "i", "f", "y", "-", "c", "o", "n", "t", "e", "n", "t">>,
     <<"a", "l", "i", "g", "n", "-", "i", "t", "e", "m", "s">>,
     <<"g", "a", "p">>,
     <<"b", "o", "r", "d", "e", "r", "-", "r", "a", "d", "i", "u", "s">>,
     <<"b", "o", "r", "d", "e", "r", "-", "t", "o", "p", "-", "w", "i", "d", "t", "h">>,
     <<"b", "o", "r", "d", "e", "r", "-", "r", "i", "g", "h", "t", "-", "w", "i", "d", "t", "h">>,
     <<"b", "o", "r", "d", "e", "r", "-", "b", "o", "t", "t", "o", "m", "-", "w", "i", "d", "t", "h">>,
     <<"b", "o", "r", "d", "e", "r", "-", "l", "e", "f", "t", "-", "w", "i", "d", "t", "h">>,
     <<"b", "o", "r", "d", "e", "r", "-", "t", "o", "p", "-", "c", "o", "l", "o", "r">>,
     <<"b", "o", "r", "d", "e", "r", "-", "r", "i", "g", "h", "t", "-", "c", "o", "l", "o", "r">>,
     <<"b", "o", "r", "d", "e", "r", "-", "b", "o", "t", "t", "o", "m", "-", "c", "o", "l", "o", "r">>,
     <<"b", "o", "r", "d", "e", "r", "-", "l", "e", "f", "t", "-", "c", "o", "l", "o", "r">>,
     <<"b", "o", "r", "d", "e", "r", "-", "t", "o", "p", "-", "s", "t", "y", "l", "e">>,
     <<"o", "p", "a", "c", "i", "t", "y">>,
     <<"t", "e", "x", "t", "-", "a", "l", "i", "g", "n">>,
     <<"l", "i", "n", "e", "-", "h", "e", "i", "g", "h", "t">>,
     <<"b", "o", "x", "-", "s", "h", "a", "d", "o", "w">>,
     <<"t", "e", "x", "t", "-", "d", "e", "c", "o", "r", "a", "t", "i", "o", "n">>,
     <<"t", "e", "x", "t", "-", "t", "r", "a", "n", "s", "f", "o", "r", "m">>}

PROP_SET == CLASS_STYLE_PROPS

(***************************************************************************)
(* Objects used as maps (Record<string, ...>): the sequence of the own     *)
(* entries [key, val] in insertion order, which is the order Object.keys   *)
(* gives for keys that are not integers.                                   *)
(***************************************************************************)
Keys(m) == [i \in 1..Len(m) |-> m[i].key]
Has(m, k) == \E i \in 1..Len(m) : m[i].key = k
Get(m, k) == m[CHOOSE i \in 1..Len(m) : m[i].key = k].val
Put(m, k, v) ==
    IF Has(m, k)
    THEN [i \in 1..Len(m) |-> IF m[i].key = k THEN [key |-> k, val |-> v] ELSE m[i]]
    ELSE Append(m, [key |-> k, val |-> v])

\* Names every object literal inherits from Object.prototype: result[cls] is
\* truthy for them although result has no such own entry.
ObjectPrototypeKeys ==
    {<<"c", "o", "n", "s", "t", "r", "u", "c", "t", "o", "r">>,
     <<"t", "o", "S", "t", "r", "i", "n", "g">>,
     <<"v", "a", "l", "u", "e", "O", "f">>,
     <<"h", "a", "s", "O", "w", "n", "P", "r", "o", "p", "e", "r", "t", "y">>}

(***************************************************************************)
(* walkCssRules (extract.ts:52-76): the (selector, body) pairs handed to   *)
(* onRule, in order.                                                       *)
(***************************************************************************)
\* extract.ts:58-64: from index j at depth 1, the index after the closing
\* brace that brings the depth to 0, or the length of the text when none does.
\* The depth after the character at p is 1 + the opening braces - the closing
\* braces among the characters j..p.
DepthAfter(text, j, p) ==
    1 + Cardinality({k \in j..p : text[k + 1] = "{"})
      - Cardinality({k \in j..p : text[k + 1] = "}"})

ScanBlock(text, j) ==
    LET closing == {p \in j..(Len(text) - 1) : DepthAfter(text, j, p) = 0} IN
    IF closing = {} THEN Max(j, Len(text)) ELSE Least(closing) + 1

\* A plausible slip: an at-rule's block handed to onRule like any other block.
RECURSIVE walkNoRecursion(_, _)
walkNoRecursion(text, i) ==
    IF ~(i < Len(text)) THEN <<>>
    ELSE
        LET blockStart == IndexOf(text, "{", i) IN
        IF blockStart = -1 THEN <<>>
        ELSE
            LET j == ScanBlock(text, blockStart + 1)
                selector == Trim(Slice(text, i, blockStart))
                body == Slice(text, blockStart + 1, j - 1)
            IN  <<[selector |-> selector, body |-> body]>> \o walkNoRecursion(text, j)

walkCssRulesNoRecursion(text) == walkNoRecursion(text, 0)

\* The loop of extract.ts:54-75 from index i on.
RECURSIVE walkFrom(_, _)
walkFrom(text, i) ==
    IF ~(i < Len(text)) THEN <<>>
    ELSE
        LET blockStart == IndexOf(text, "{", i) IN
        IF blockStart = -1 THEN <<>>
        ELSE
            LET j == ScanBlock(text, blockStart + 1)
                selector == Trim(Slice(text, i, blockStart))
                body == Slice(text, blockStart + 1, j - 1)
            IN  (IF StartsWith(selector, <<"@">>)
                 THEN walkFrom(body, 0)
                 ELSE <<[selector |-> selector, body |-> body]>>)
                \o walkFrom(text, j)

walkCssRules(text) == walkFrom(text, 0)

(***************************************************************************)
(* parseCssCustomProps (extract.ts:82-95)                                  *)
(***************************************************************************)
\* extract.ts:86-92: the declarations of one :root body, added to props.
RECURSIVE customPropsOfDecls(_, _)
customPropsOfDecls(decls, props) ==
    IF decls = <<>> THEN props
    ELSE
        LET decl == Head(decls)
            colon == IndexOf(decl, ":", 0)
        IN  IF colon = -1 THEN customPropsOfDecls(Tail(decls), props)
            ELSE
                LET name == Trim(Slice(decl, 0, colon))
                    val == Trim(SliceFrom(decl, colon + 1))
                IN  customPropsOfDecls(Tail(decls),
                        IF StartsWith(name, <<"-", "-">>) /\ val # <<>>
                        THEN Put(props, name, val) ELSE props)

IsRootSelector(selector) ==
    LET segs == Split(selector, ",") IN
    \E k \in 1..Len(segs) : Trim(segs[k]) = <<":", "r", "o", "o", "t">>

RECURSIVE customPropsOfRules(_, _)
customPropsOfRules(rules, props) ==
    IF rules = <<>> THEN props
    ELSE customPropsOfRules(Tail(rules),
            IF IsRootSelector(Head(rules).selector)
            THEN customPropsOfDecls(Split(Head(rules).body, ";"), props)
            ELSE props)

parseCssCustomProps(stripped) == customPropsOfRules(walkCssRules(stripped), <<>>)

(***************************************************************************)
(* resolveVars (extract.ts:101-105): every match of the expression of line *)
(* 102 replaced, left to right.  The expression matches "var(", a name     *)
(* "--" followed by one or more word characters or hyphens, optionally     *)
(* [spaces, a comma, spaces and a fallback, the characters up to the next  *)
(* closing parenthesis], and a closing parenthesis.                        *)
(***************************************************************************)
\* The index after the longest run of characters satisfying the class, from p.
RECURSIVE SkipWord(_, _)
SkipWord(text, p) ==
    IF p < Len(text) /\ IsWordOrHyphen(text[p + 1]) THEN SkipWord(text, p + 1) ELSE p
RECURSIVE SkipSpace(_, _)
SkipSpace(text, p) ==
    IF p < Len(text) /\ IsSpace(text[p + 1]) THEN SkipSpace(text, p + 1) ELSE p

NoMatch == [ok |-> FALSE]

\* The match of the expression that starts at index p, if there is one: the
\* name, whether the fallback group took part, the fallback, and the index
\* after the match.
MatchVar(text, p) ==
    IF Slice(text, p, p + 6) # <<"v", "a", "r", "(", "-", "-">> THEN NoMatch
    ELSE
        LET e == SkipWord(text, p + 6) IN
        IF e = p + 6 THEN NoMatch
        ELSE
            LET name == Slice(text, p + 4, e)
                c == SkipSpace(text, e)
                withGroup ==
                    IF c < Len(text) /\ text[c + 1] = ","
                    THEN LET f == SkipSpace(text, c + 1)
                             close == IndexOf(text, ")", f)
                         IN  IF close = -1 THEN NoMatch
                             ELSE [ok |-> TRUE, name |-> name, hasFallback |-> TRUE,
                                   fallback |-> Slice(text, f, close), end |-> close + 1]
                    ELSE NoMatch
            IN  IF withGroup.ok THEN withGroup
                ELSE IF e < Len(text) /\ text[e + 1] = ")"
                THEN [ok |-> TRUE, name |-> name, hasFallback |-> FALSE,
                      fallback |-> <<>>, end |-> e + 1]
                ELSE NoMatch

\* extract.ts:103: customProps[name] ?? fallback?.trim() ?? _match
Replacement(text, p, m, customProps) ==
    IF Has(customProps, m.name) THEN Get(customProps, m.name)
    ELSE IF m.hasFallback THEN Trim(m.fallback)
    ELSE Slice(text, p, m.end)

\* A plausible slip: the fallback preferred to the defined value.
ReplacementFallbackFirst(text, p, m, customProps) ==
    IF m.hasFallback THEN Trim(m.fallback)
    ELSE IF Has(customProps, m.name) THEN Get(customProps, m.name)
    ELSE Slice(text, p, m.end)

\* The index of the first match at or after p, or -1.
NextMatch(value, p) ==
    LET starts == {q \in p..(Len(value) - 1) : MatchVar(value, q).ok} IN
    IF starts = {} THEN -1 ELSE Least(starts)

RECURSIVE resolveFromFallbackFirst(_, _, _)
resolveFromFallbackFirst(value, p, customProps) ==
    LET q == NextMatch(value, p) IN
    IF q = -1 THEN SliceFrom(value, p)
    ELSE LET m == MatchVar(value, q) IN
         Slice(value, p, q) \o ReplacementFallbackFirst(value, q, m, customProps)
            \o resolveFromFallbackFirst(value, m.end, customProps)

resolveVarsFallbackFirst(value, customProps) ==
    resolveFromFallbackFirst(value, 0, customProps)

\* The text from index p on with every match replaced.
RECURSIVE resolveFrom(_, _, _)
resolveFrom(value, p, customProps) ==
    LET q == NextMatch(value, p) IN
    IF q = -1 THEN SliceFrom(value, p)
    ELSE LET m == MatchVar(value, q) IN
         Slice(value, p, q) \o Replacement(value, q, m, customProps)
            \o resolveFrom(value, m.end, customProps)

resolveVars(value, customProps) == resolveFrom(value, 0, customProps)

(***************************************************************************)
(* parseClassStylesFromCss (extract.ts:115-144)                            *)
(***************************************************************************)
\* The index of the first occurrence of the two characters at or after p, or -1.
IndexOfPair(text, c1, c2, p) ==
    LET hits == {k \in Max(p, 0)..(Len(text) - 2) : text[k + 1] = c1 /\ text[k + 2] = c2} IN
    IF hits = {} THEN -1 ELSE Least(hits)

\* extract.ts:119: every block comment, from its opening mark to the first
\* closing mark after it, removed.  An opening mark with no closing mark after
\* it matches nothing, and then no later one does.
RECURSIVE stripCommentsFrom(_, _)
stripCommentsFrom(text, p) ==
    LET open == IndexOfPair(text, "/", "*", p)
        close == IF open = -1 THEN -1 ELSE IndexOfPair(text, "*", "/", open + 2)
    IN  IF close = -1 THEN SliceFrom(text, p)
        ELSE Slice(text, p, open) \o stripCommentsFrom(text, close + 2)

stripComments(cssText) == stripCommentsFrom(cssText, 0)

\* A plausible slip: the pattern not anchored at the end.
IsBareClassUnanchored(trimmed) ==
    /\ Len(trimmed) >= 2
    /\ trimmed[1] = "."
    /\ IsWordOrHyphen(trimmed[2])

\* extract.ts:127: a dot followed by one or more word characters or hyphens,
\* and nothing else.
IsBareClass(trimmed) ==
    /\ Len(trimmed) >= 2
    /\ trimmed[1] = "."
    /\ \A k \in 2..Len(trimmed) : IsWordOrHyphen(trimmed[k])

\* extract.ts:131-139: the declarations of one body, written to props.
RECURSIVE classPropsOfDecls(_, _, _)
classPropsOfDecls(decls, props, customProps) ==
    IF decls = <<>> THEN props
    ELSE
        LET decl == Head(decls)
            colon == IndexOf(decl, ":", 0)
        IN  IF colon = -1 THEN classPropsOfDecls(Tail(decls), props, customProps)
            ELSE
                LET prop == Trim(Slice(decl, 0, colon))
                    raw == Trim(SliceFrom(decl, colon + 1))
                IN  classPropsOfDecls(Tail(decls),
                        IF prop \in PROP_SET /\ raw # <<>>
                        THEN Put(props, prop, resolveVars(raw, customProps))
                        ELSE props,
                        customProps)

\* extract.ts:125-140: the selector segments of one rule.
RECURSIVE classStylesOfSegments(_, _, _, _)
classStylesOfSegments(segs, body, res, customProps) ==
    IF segs = <<>> THEN res
    ELSE
        LET trimmed == Trim(Head(segs)) IN
        IF ~IsBareClass(trimmed)
        THEN classStylesOfSegments(Tail(segs), body, res, customProps)
        ELSE
            LET cls == SliceFrom(trimmed, 1) IN
            IF ~Has(res, cls) /\ cls \in ObjectPrototypeKeys
            THEN \* result[cls] is the inherited member: it is written to,
                 \* and result gets no entry
                 classStylesOfSegments(Tail(segs), body, res, customProps)
            ELSE
                LET had == IF Has(res, cls) THEN Get(res, cls) ELSE <<>>
                IN  classStylesOfSegments(Tail(segs), body,
                        Put(res, cls, classPropsOfDecls(Split(body, ";"), had, customProps)),
                        customProps)

RECURSIVE classStylesOfRules(_, _, _)
classStylesOfRules(rules, res, customProps) ==
    IF rules = <<>> THEN res
    ELSE classStylesOfRules(Tail(rules),
            classStylesOfSegments(Split(Head(rules).selector, ","), Head(rules).body,
                                  res, customProps),
            customProps)

parseClassStylesFromCss(cssText) ==
    LET stripped == stripComments(cssText)
        customProps == parseCssCustomProps(stripped)
    IN  classStylesOfRules(walkCssRules(stripped), <<>>, customProps)

(***************************************************************************)
(* Stylesheets the extractor is run on.  A generated stylesheet is an      *)
(* optional :root block of custom property definitions followed by one     *)
(* rule, the whole wrapped in cssDepth at-rule blocks.  A declaration      *)
(* value is a sequence of segments: literal text, or a var() reference     *)
(* with or without a fallback.                                             *)
(***************************************************************************)
Lit(text) == [kind |-> "lit", text |-> text]
Var(name) == [kind |-> "var", name |-> name, hasFallback |-> FALSE, fallback |-> <<>>]
VarOr(name, fallback) ==
    [kind |-> "var", name |-> name, hasFallback |-> TRUE, fallback |-> fallback]

RenderSeg(seg) ==
    IF seg.kind = "lit" THEN seg.text
    ELSE IF seg.hasFallback
    THEN <<"v", "a", "r", "(">> \o seg.name \o <<",", " ">> \o seg.fallback \o <<")">>
    ELSE <<"v", "a", "r", "(">> \o seg.name \o <<")">>

RenderValue(segs) == Concat([k \in 1..Len(segs) |-> RenderSeg(segs[k])])

RenderDecls(decls) ==
    Concat([k \in 1..Len(decls) |->
              <<" ">> \o decls[k].prop \o <<":", " ">> \o RenderValue(decls[k].value) \o <<";">>])

RenderRoot(rootSel, rootDefs) ==
    IF rootDefs = <<>> THEN <<>>
    ELSE rootSel \o <<" ", "{">>
         \o Concat([k \in 1..Len(rootDefs) |->
                      <<" ">> \o rootDefs[k].name \o <<":", " ">> \o rootDefs[k].value \o <<";">>])
         \o <<" ", "}">> \o <<"\n">>

RenderRule(selector, decls) == selector \o <<" ", "{">> \o RenderDecls(decls) \o <<" ", "}">>

\* The stylesheet of an input before any wrapping.
BaseText(in) == RenderRoot(in.rootSel, in.rootDefs) \o RenderRule(in.selector, in.decls)

Wrap(prelude, text) == prelude \o <<" ", "{", " ">> \o text \o <<" ", "}">>

RootDefChoices ==
    {<<>>,
     <<[name |-> <<"-", "-", "c">>, value |-> <<"b", "l", "u", "e">>]>>,
     <<[name |-> <<"-", "-", "c">>, value |-> <<"n", "a", "v", "y">>],
       [name |-> <<"-", "-", "c">>, value |-> <<"b", "l", "u", "e">>]>>}
RootSelChoices == {<<":", "r", "o", "o", "t">>, <<"h", "t", "m", "l", ",", " ", ":", "r", "o", "o", "t">>}
BareSelectors == {<<".", "x">>, <<".", "y", ",", " ", ".", "x">>}
OtherSelectors == {<<".", "x", " ", ".", "y">>, <<".", "x", ":", "h", "o", "v", "e", "r">>}
SelectorChoices == BareSelectors \cup OtherSelectors
DeclChoices ==
    {[prop |-> <<"c", "o", "l", "o", "r">>, value |-> <<Lit(<<"r", "e", "d">>)>>],
     [prop |-> <<"c", "o", "l", "o", "r">>, value |-> <<Var(<<"-", "-", "c">>)>>],
     [prop |-> <<"c", "o", "l", "o", "r">>, value |-> <<VarOr(<<"-", "-", "c">>, <<"g", "r", "e", "e", "n">>)>>],
     [prop |-> <<"g", "a", "p">>, value |-> <<VarOr(<<"-", "-", "m", "i", "s", "s", "i", "n", "g">>, <<"g", "r", "e", "e", "n", " ">>)>>],
     [prop |-> <<"g", "a", "p">>, value |-> <<VarOr(<<"-", "-", "m", "i", "s", "s", "i", "n", "g">>, <<>>)>>],
     [prop |-> <<"m", "a", "x", "-", "w", "i", "d", "t", "h">>, value |-> <<Var(<<"-", "-", "m", "i", "s", "s", "i", "n", "g">>)>>],
     [prop |-> <<"b", "o", "x", "-", "s", "h", "a", "d", "o", "w">>,
      value |-> <<Lit(<<"1", "p", "x", " ", "s", "o", "l", "i", "d", " ">>), Var(<<"-", "-", "c">>), Lit(<<" ">>),
                  VarOr(<<"-", "-", "m", "i", "s", "s", "i", "n", "g">>, <<"0">>)>>]}
MaxDecls == 2
DeclLists == UNION {[1..n -> DeclChoices] : n \in 1..MaxDecls}
Preludes == {<<"@", "m", "e", "d", "i", "a", " ", "(", "m", "i", "n", "-", "w", "i", "d", "t", "h", ":", " ", "1", "p", "x", ")">>, <<"@", "s", "u", "p", "p", "o", "r", "t", "s", " ", "(", "g", "a", "p", ":", " ", "0", ")">>}
MaxDepth == 2

CssInputs ==
    [rootSel : RootSelChoices, rootDefs : RootDefChoices,
     selector : SelectorChoices, decls : DeclLists]

(***************************************************************************)
(* The texts walkCssRules is run on step by step: every short text over    *)
(* braces, a letter, the at sign and a blank, balanced or not, and sheets  *)
(* of several rules, each rule at the top level or inside an at-rule.      *)
(***************************************************************************)
WalkAlphabet == {"{", "}", "a", "@", " "}
MaxTextLen == 5
BraceTexts == UNION {[1..n -> WalkAlphabet] : n \in 0..MaxTextLen}

\* A selector segment with the class it names when it is a bare class
\* selector (cls is empty when it is not); a declaration with its resolved
\* value under the custom properties of SheetRoot.
Seg(text, cls) == [text |-> text, cls |-> cls]
Decl(prop, raw, resolved) == [prop |-> prop, raw |-> raw, resolved |-> resolved]

SheetRoot == <<":", "r", "o", "o", "t", "{", "-", "-", "c", ":", " ", "b", "l", "u", "e", "}">>

SheetSelectors ==
    {<<Seg(<<".", "x">>, <<"x">>)>>,
     <<Seg(<<".", "y">>, <<"y">>), Seg(<<" ", ".", "x", " ">>, <<"x">>)>>,
     <<Seg(<<".", "x", " ", ".", "y">>, <<>>)>>,
     <<Seg(<<".", "x", ":", "h", "o", "v", "e", "r">>, <<>>), Seg(<<" ", ".", "y", ".", "x">>, <<>>)>>,
     <<Seg(<<".", "x", "[", "a", "]">>, <<>>)>>,
     <<Seg(<<".", "c", "o", "n", "s", "t", "r", "u", "c", "t", "o", "r">>, <<"c", "o", "n", "s", "t", "r", "u", "c", "t", "o", "r">>)>>}

SheetDecls ==
    {<<Decl(<<"c", "o", "l", "o", "r">>, <<"r", "e", "d">>, <<"r", "e", "d">>)>>,
     <<Decl(<<"c", "o", "l", "o", "r">>, <<"v", "a", "r", "(", "-", "-", "c", ")">>, <<"b", "l", "u", "e">>), Decl(<<"g", "a", "p">>, <<"4", "p", "x">>, <<"4", "p", "x">>)>>,
     <<Decl(<<"w", "i", "d", "t", "h">>, <<"1", "p", "x">>, <<"1", "p", "x">>), Decl(<<"c", "o", "l", "o", "r">>, <<"g", "r", "e", "e", "n">>, <<"g", "r", "e", "e", "n">>)>>,
     <<Decl(<<"f", "o", "n", "t", "-", "f", "a", "m", "i", "l", "y">>, <<"s", "e", "r", "i", "f">>, <<"s", "e", "r", "i", "f">>)>>}

SheetItems == [segs : SheetSelectors, decls : SheetDecls, nested : BOOLEAN]

MaxRules == 2
SheetRules == UNION {[1..n -> SheetItems] : n \in 1..MaxRules}

RenderItem(item) ==
    LET selector == Concat([k \in 1..Len(item.segs) |->
                               (IF k > 1 THEN <<",">> ELSE <<>>) \o item.segs[k].text])
        body == Concat([k \in 1..Len(item.decls) |->
                           (IF k > 1 THEN <<";">> ELSE <<>>)
                               \o item.decls[k].prop \o <<":", " ">> \o item.decls[k].raw])
        rule == selector \o <<"{">> \o body \o <<"}">>
    IN  IF item.nested THEN <<"@", "m", "e", "d", "i", "a", " ", "x", "{">> \o rule \o <<"}">> ELSE rule

SheetText(items) == SheetRoot \o Concat([k \in 1..Len(items) |-> RenderItem(items[k])])

WalkInputs ==
    {[kind |-> "text", text |-> t, items |-> <<>>] : t \in BraceTexts}
    \cup {[kind |-> "rules", text |-> SheetText(items), items |-> items] :
             items \in SheetRules}

(***************************************************************************)
(* HTML documents (structural.ts).  A document is what cheerio.load makes  *)
(* of rawHtml: its elements in document order, each with its tag, its      *)
(* attributes (an object: name, value) and its own text.  A nav element    *)
(* contains every element after it.                                        *)
(***************************************************************************)
HasAttr(el, name) == Has(el.attrs, name)
\* $(el).attr(name) ?? ''
AttrOrEmpty(el, name) == IF Has(el.attrs, name) THEN Get(el.attrs, name) ELSE <<>>

\* The members of a finite set of integers in increasing order.
SetToSeq(S) ==
    [i \in 1..Cardinality(S) |->
        CHOOSE x \in S : Cardinality({y \in S : y < x}) = i - 1]

Range(s) == {s[k] : k \in 1..Len(s)}

\* Appending to a Set kept in insertion order.
AddAllUnique(s, xs) ==
    LET all == s \o xs
        first == SetToSeq({k \in 1..Len(all) : \A j \in 1..(k - 1) : all[j] # all[k]})
    IN  [i \in 1..Len(first) |-> all[first[i]]]

\* text.split(/\s+/): the pieces between the maximal runs of white space
SplitWs(text) ==
    LET runs == SetToSeq({k \in 1..Len(text) :
                            IsSpace(text[k]) /\ (k = 1 \/ ~IsSpace(text[k - 1]))})
        \* the position after the run that starts at p
        past(p) == Least({k \in p..(Len(text) + 1) : k > Len(text) \/ ~IsSpace(text[k])})
    IN  [i \in 1..(Len(runs) + 1) |->
            SubSeq(text,
                   IF i = 1 THEN 1 ELSE past(runs[i - 1]),
                   IF i = Len(runs) + 1 THEN Len(text) ELSE runs[i] - 1)]

\* .split(/\s+/).filter(Boolean)
Tokens(text) == SelectSeq(SplitWs(text), LAMBDA t : t # <<>>)

RECURSIVE JoinSp(_)
JoinSp(texts) ==
    IF texts = <<>> THEN <<>>
    ELSE IF Len(texts) = 1 THEN Head(texts)
    ELSE LET h == Len(texts) \div 2
         IN  JoinSp(SubSeq(texts, 1, h)) \o <<" ">> \o JoinSp(SubSeq(texts, h + 1, Len(texts)))

\* $(el).text().replace(/\s+/g, ' ').trim(): every run of white space
\* becomes one space and the ends are trimmed, which leaves the non-empty
\* pieces joined by single spaces.
normText(el) == JoinSp(Tokens(el.text))

\* The decimal digits of a natural number.
DigitChar(d) ==
    CASE d = 0 -> "0" [] d = 1 -> "1" [] d = 2 -> "2" [] d = 3 -> "3" [] d = 4 -> "4"
      [] d = 5 -> "5" [] d = 6 -> "6" [] d = 7 -> "7" [] d = 8 -> "8" [] d = 9 -> "9"
RECURSIVE Decimal(_)
Decimal(n) ==
    IF n < 10 THEN <<DigitChar(n)>> ELSE Decimal(n \div 10) \o <<DigitChar(n % 10)>>

\* The matches of a selector, as positions in the document, in document order.
ByTag(doc, tag) == SetToSeq({k \in 1..Len(doc) : doc[k].tag = tag})
ByAttr(doc, name) == SetToSeq({k \in 1..Len(doc) : HasAttr(doc[k], name)})
\* $('nav a')
NavAnchors(doc) ==
    SetToSeq({k \in 1..Len(doc) :
                /\ doc[k].tag = <<"a">>
                /\ \E j \in 1..(k - 1) : doc[j].tag = <<"n", "a", "v">>})
\* $('a[href]')
AnchorsWithHref(doc) ==
    SetToSeq({k \in 1..Len(doc) : doc[k].tag = <<"a">> /\ HasAttr(doc[k], <<"h", "r", "e", "f">>)})

\* A value that cannot stand between the double quotes of an attribute
\* selector: the selector text built from it does not parse and the query
\* throws.
BreaksSelector(value) == \E k \in 1..Len(value) : value[k] = "\""

\* structural.ts:26-33 countByClass
countByClass(doc, cls) ==
    IF BreaksSelector(cls) THEN 0
    ELSE Cardinality({k \in 1..Len(doc) :
                        /\ HasAttr(doc[k], <<"c", "l", "a", "s", "s">>)
                        /\ cls # <<>>
                        /\ cls \in Range(SplitWs(Get(doc[k].attrs, <<"c", "l", "a", "s", "s">>)))})

(***************************************************************************)
(* rawHtml, line by line, and the unified diff of two of them.             *)
(***************************************************************************)
RenderAttr(a) ==
    IF BreaksSelector(a.val)
    THEN <<" ">> \o a.key \o <<"=", "'">> \o a.val \o <<"'">>
    ELSE <<" ">> \o a.key \o <<"=", "\"">> \o a.val \o <<"\"">>

\* One line per element; a nav element is closed on a last line of its own.
\* A node without a tag is a line of text.
RenderElement(el) ==
    IF el.tag = <<>> THEN el.text ELSE
    <<"<">> \o el.tag \o Concat([k \in 1..Len(el.attrs) |-> RenderAttr(el.attrs[k])]) \o <<">">>
        \o (IF el.tag = <<"n", "a", "v">> THEN <<>> ELSE el.text \o <<"<", "/">> \o el.tag \o <<">">>)

rawHtml(doc) ==
    [k \in 1..Len(doc) |-> RenderElement(doc[k])]
        \o (IF \E k \in 1..Len(doc) : doc[k].tag = <<"n", "a", "v">> THEN <<<<"<", "/", "n", "a", "v", ">">>>> ELSE <<>>)

\* The length of a longest common subsequence of two sequences of lines.
\* One row of the table of lengths: the lengths for the lines read so far,
\* x the last of them, against the first j lines of b.
LcsRow(prev, x, b) ==
    [j \in 1..Len(b) |->
        LET ends == {k \in 1..j : b[k] = x}
            best == IF ends = {} THEN 0
                    ELSE 1 + (IF \E k \in ends : k > 1
                              THEN prev[(CHOOSE k \in ends : \A m \in ends : m <= k) - 1]
                              ELSE 0)
        IN  Max(prev[j], best)]
RECURSIVE LcsRows(_, _, _)
LcsRows(a, b, prev) ==
    IF a = <<>> THEN prev ELSE LcsRows(Tail(a), b, LcsRow(prev, Head(a), b))
LcsLen(a, b) ==
    IF b = <<>> THEN 0 ELSE LcsRows(a, b, [j \in 1..Len(b) |-> 0])[Len(b)]

\* The body of the hunk: a shortest edit script, one marked line per line.
\* The lines of the script come in runs: the leading lines the two texts
\* share, then the leading lines of a that b does not have (a line that b
\* does not have is in no common subsequence).
RECURSIVE EditScript(_, _)
EditScript(a, b) ==
    IF a = <<>> THEN [k \in 1..Len(b) |-> <<"+">> \o b[k]]
    ELSE IF b = <<>> THEN [k \in 1..Len(a) |-> <<"-">> \o a[k]]
    ELSE LET n == Min(Len(a), Len(b))
             same == Least({k \in 1..(n + 1) : k > n \/ a[k] # b[k]}) - 1
             gone == Least({k \in 1..(Len(a) + 1) : k > Len(a) \/ a[k] \in Range(b)}) - 1
         IN  IF same > 0
             THEN [k \in 1..same |-> <<" ">> \o a[k]]
                    \o EditScript(SubSeq(a, same + 1, Len(a)), SubSeq(b, same + 1, Len(b)))
             ELSE IF gone > 0
             THEN [k \in 1..gone |-> <<"-">> \o a[k]] \o EditScript(SubSeq(a, gone + 1, Len(a)), b)
             ELSE IF LcsLen(Tail(a), b) >= LcsLen(a, Tail(b))
             THEN <<<<"-">> \o Head(a)>> \o EditScript(Tail(a), b)
             ELSE <<<<"+">> \o Head(b)>> \o EditScript(a, Tail(b))

\* structural.ts:240-244: the lines of the patch of the diff library: the
\* two file header lines, then, when the texts differ, the hunk.
createTwoFilesPatch(oldLines, newLines) ==
    <<<<"=", "=", "=">>, <<"-", "-", "-", " ", "b", "e", "f", "o", "r", "e", ".", "h", "t", "m", "l">>, <<"+", "+", "+", " ", "a", "f", "t", "e", "r", ".", "h", "t", "m", "l">>>>
        \o (IF oldLines = newLines THEN <<>>
            ELSE <<<<"@", "@">>>> \o EditScript(oldLines, newLines))

\* structural.ts:14-23
countChangedLines(patch) ==
    Cardinality({k \in 1..Len(patch) :
                   /\ StartsWith(patch[k], <<"+">>) \/ StartsWith(patch[k], <<"-">>)
                   /\ ~StartsWith(patch[k], <<"+", "+", "+">>)
                   /\ ~StartsWith(patch[k], <<"-", "-", "-">>)})

(***************************************************************************)
(* diffCssClasses (structural.ts:42-89)                                    *)
(***************************************************************************)
\* obj[key] ?? {} and obj[key] ?? ''
PropsOf(styles, cls) == IF Has(styles, cls) THEN Get(styles, cls) ELSE <<>>
ValueOf(props, prop) == IF Has(props, prop) THEN Get(props, prop) ELSE <<>>

\* A changed property that shows the value as it is.
orAsIs(val) == val

\* structural.ts:69-70: val || '(not declared)'
orNotDeclared(val) == IF val = <<>> THEN <<"(", "n", "o", "t", " ", "d", "e", "c", "l", "a", "r", "e", "d", ")">> ELSE val

\* structural.ts:60-73
changedPropertiesOf(bProps, aProps) ==
    LET allProps == AddAllUnique(Keys(bProps), Keys(aProps))
        changed == SelectSeq(allProps,
                             LAMBDA prop : ValueOf(bProps, prop) # ValueOf(aProps, prop))
    IN  [k \in 1..Len(changed) |->
            [property |-> changed[k],
             before |-> orNotDeclared(ValueOf(bProps, changed[k])),
             after |-> orNotDeclared(ValueOf(aProps, changed[k]))]]

Impact(change) == change.elementCountBefore + change.elementCountAfter

\* The changes left in the order they were pushed.
leftUnsorted(changes) == changes

\* structural.ts:87: Array.prototype.sort, which is stable, by impact
\* descending.  The place of the entry at i in the sorted list.
PlaceByImpact(changes, i) ==
    1 + Cardinality({j \in 1..Len(changes) : Impact(changes[j]) > Impact(changes[i])})
      + Cardinality({j \in 1..(i - 1) : Impact(changes[j]) = Impact(changes[i])})
sortByImpact(changes) ==
    [p \in 1..Len(changes) |->
        changes[CHOOSE i \in 1..Len(changes) : PlaceByImpact(changes, i) = p]]

\* structural.ts:56-83: the changes before ordering and capping
classChangesOf(before, after) ==
    LET allClasses == AddAllUnique(Keys(before.classComputedStyles), Keys(after.classComputedStyles))
        changed == SelectSeq(allClasses,
                       LAMBDA cls : changedPropertiesOf(PropsOf(before.classComputedStyles, cls),
                                                        PropsOf(after.classComputedStyles, cls)) # <<>>)
    IN  [k \in 1..Len(changed) |->
            [className |-> changed[k],
             changedProperties |-> changedPropertiesOf(PropsOf(before.classComputedStyles, changed[k]),
                                                       PropsOf(after.classComputedStyles, changed[k])),
             elementCountBefore |-> countByClass(before.doc, changed[k]),
             elementCountAfter |-> countByClass(after.doc, changed[k])]]

diffCssClasses(before, after) ==
    SubSeq(sortByImpact(classChangesOf(before, after)), 1,
           Min(60, Len(classChangesOf(before, after))))

(***************************************************************************)
(* diffElementClasses (structural.ts:97-146).  The accumulator holds the   *)
(* changes pushed, the identifiers seen, and whether a query has thrown.   *)
(***************************************************************************)
\* structural.ts:107-127
compare(identifier, bEl, aEl, acc) ==
    IF identifier \in Range(acc.seen) THEN acc
    ELSE
        LET bClasses == AddAllUnique(<<>>, Tokens(AttrOrEmpty(bEl, <<"c", "l", "a", "s", "s">>)))
            aClasses == AddAllUnique(<<>>, Tokens(AttrOrEmpty(aEl, <<"c", "l", "a", "s", "s">>)))
            added == SelectSeq(aClasses, LAMBDA c : c \notin Range(bClasses))
            removed == SelectSeq(bClasses, LAMBDA c : c \notin Range(aClasses))
            seen == Append(acc.seen, identifier)
        IN  IF added = <<>> /\ removed = <<>> THEN [acc EXCEPT !.seen = seen]
            ELSE [acc EXCEPT !.seen = seen,
                             !.changes = Append(@, [identifier |-> identifier,
                                                    tag |-> bEl.tag,
                                                    classesBefore |-> bClasses,
                                                    classesAfter |-> aClasses,
                                                    classesAdded |-> added,
                                                    classesRemoved |-> removed])]

\* structural.ts:130-136: the elements of the first document that have an id.
\* A query that throws ends the run whatever was compared before it.
matchById(bDoc, aDoc, els, acc) ==
    LET idOf(k) == Get(bDoc[k].attrs, <<"i", "d">>)
        found(k) == SetToSeq({m \in 1..Len(aDoc) :
                                HasAttr(aDoc[m], <<"i", "d">>) /\ Get(aDoc[m].attrs, <<"i", "d">>) = idOf(k)})
        \* the elements whose id is compared: the first of each id that the
        \* second document has too
        firsts == SelectSeq([i \in 1..Len(els) |-> i],
                     LAMBDA i : /\ idOf(els[i]) # <<>>
                                /\ found(els[i]) # <<>>
                                /\ (<<"#">> \o idOf(els[i])) \notin Range(acc.seen)
                                /\ \A j \in 1..(i - 1) : idOf(els[j]) # idOf(els[i]))
        one(i) == compare(<<"#">> \o idOf(els[i]), bDoc[els[i]], aDoc[found(els[i])[1]],
                          [changes |-> <<>>, seen |-> <<>>, threw |-> FALSE])
    IN  IF acc.threw THEN acc
        ELSE IF \E i \in 1..Len(els) : idOf(els[i]) # <<>> /\ BreaksSelector(idOf(els[i]))
        THEN [acc EXCEPT !.threw = TRUE]
        ELSE [acc EXCEPT
                !.seen = @ \o [n \in 1..Len(firsts) |-> <<"#">> \o idOf(els[firsts[n]])],
                !.changes = @ \o Concat([n \in 1..Len(firsts) |-> one(firsts[n]).changes])]

\* structural.ts:139-143
RECURSIVE matchByTag(_, _, _, _)
matchByTag(bDoc, aDoc, tags, acc) ==
    IF tags = <<>> THEN acc
    ELSE
        LET bEls == ByTag(bDoc, Head(tags))
            aEls == ByTag(aDoc, Head(tags))
        IN  matchByTag(bDoc, aDoc, Tail(tags),
                IF bEls # <<>> /\ aEls # <<>>
                THEN compare(<<"<">> \o Head(tags) \o <<">">>, bDoc[bEls[1]], aDoc[aEls[1]], acc)
                ELSE acc)

diffElementClasses(bDoc, aDoc) ==
    LET byId == matchById(bDoc, aDoc, ByAttr(bDoc, <<"i", "d">>),
                          [changes |-> <<>>, seen |-> <<>>, threw |-> FALSE])
        all == matchByTag(bDoc, aDoc, <<<<"n", "a", "v">>, <<"h", "e", "a", "d", "e", "r">>, <<"f", "o", "o", "t", "e", "r">>, <<"m", "a", "i", "n">>, <<"a", "s", "i", "d", "e">>>>, byId)
    IN  IF byId.threw THEN [threw |-> TRUE, changes |-> <<>>]
        ELSE [threw |-> FALSE,
              changes |-> SubSeq(all.changes, 1, Min(40, Len(all.changes)))]

(***************************************************************************)
(* diffContent (structural.ts:154-218)                                     *)
(***************************************************************************)
\* The text changes of one selector with every index compared.
headingChangesNoLimit(bDoc, aDoc, sel) ==
    LET bEls == ByTag(bDoc, sel)
        aEls == ByTag(aDoc, sel)
        len == Min(Len(bEls), Len(aEls))
        differs == SetToSeq({i \in 0..(len - 1) :
                       /\ normText(bDoc[bEls[i + 1]]) # <<>>
                       /\ normText(bDoc[bEls[i + 1]]) # normText(aDoc[aEls[i + 1]])})
        loc(i) ==
            LET el == bDoc[bEls[i + 1]]
                id == AttrOrEmpty(el, <<"i", "d">>)
                cls == IF HasAttr(el, <<"c", "l", "a", "s", "s">>)
                       THEN SplitWs(Get(el.attrs, <<"c", "l", "a", "s", "s">>))[1] ELSE <<>>
            IN  IF id # <<>> THEN sel \o <<"#">> \o id
                ELSE IF cls # <<>> THEN sel \o <<".">> \o cls
                ELSE sel \o <<":", "n", "t", "h", "(">> \o Decimal(i + 1) \o <<")">>
    IN  [k \in 1..Len(differs) |->
            [type |-> "text", location |-> loc(differs[k]),
             before |-> Slice(normText(bDoc[bEls[differs[k] + 1]]), 0, 200),
             after |-> Slice(normText(aDoc[aEls[differs[k] + 1]]), 0, 200)]]

\* structural.ts:164-172: the text changes of one selector
headingChanges(bDoc, aDoc, sel) ==
    LET bEls == ByTag(bDoc, sel)
        aEls == ByTag(aDoc, sel)
        len == Min(Min(Len(bEls), Len(aEls)), 20)
        differs == SetToSeq({i \in 0..(len - 1) :
                       /\ normText(bDoc[bEls[i + 1]]) # <<>>
                       /\ normText(bDoc[bEls[i + 1]]) # normText(aDoc[aEls[i + 1]])})
        loc(i) ==
            LET el == bDoc[bEls[i + 1]]
                id == AttrOrEmpty(el, <<"i", "d">>)
                cls == IF HasAttr(el, <<"c", "l", "a", "s", "s">>)
                       THEN SplitWs(Get(el.attrs, <<"c", "l", "a", "s", "s">>))[1] ELSE <<>>
            IN  IF id # <<>> THEN sel \o <<"#">> \o id
                ELSE IF cls # <<>> THEN sel \o <<".">> \o cls
                ELSE sel \o <<":", "n", "t", "h", "(">> \o Decimal(i + 1) \o <<")">>
    IN  [k \in 1..Len(differs) |->
            [type |-> "text", location |-> loc(differs[k]),
             before |-> Slice(normText(bDoc[bEls[differs[k] + 1]]), 0, 200),
             after |-> Slice(normText(aDoc[aEls[differs[k] + 1]]), 0, 200)]]

\* structural.ts:176-184
navLinkChanges(bDoc, aDoc) ==
    LET bEls == NavAnchors(bDoc)
        aEls == NavAnchors(aDoc)
        differs == SetToSeq({i \in 0..(Len(bEls) - 1) :
                       /\ i < Len(aEls)
                       /\ normText(bDoc[bEls[i + 1]]) # <<>>
                       /\ normText(aDoc[aEls[i + 1]]) # <<>>
                       /\ normText(bDoc[bEls[i + 1]]) # normText(aDoc[aEls[i + 1]])})
    IN  [k \in 1..Len(differs) |->
            [type |-> "text",
             location |-> <<"n", "a", "v", " ", "a", ":", "n", "t", "h", "(">> \o Decimal(differs[k] + 1) \o <<")">>,
             before |-> normText(bDoc[bEls[differs[k] + 1]]),
             after |-> normText(aDoc[aEls[differs[k] + 1]])]]

\* structural.ts:188, 192: attr('src') ?? attr('data-src') ?? '', trimmed
srcOf(el) ==
    Trim(IF HasAttr(el, <<"s", "r", "c">>) THEN Get(el.attrs, <<"s", "r", "c">>) ELSE AttrOrEmpty(el, <<"d", "a", "t", "a", "-", "s", "r", "c">>))

\* structural.ts:187-201
imageChanges(bDoc, aDoc) ==
    LET bEls == ByTag(bDoc, <<"i", "m", "g">>)
        aEls == ByTag(aDoc, <<"i", "m", "g">>)
        one(i) ==
            IF i >= Len(aEls) THEN <<>>
            ELSE
                LET bEl == bDoc[bEls[i + 1]]
                    aEl == aDoc[aEls[i + 1]]
                    bSrc == srcOf(bEl)
                    aSrc == srcOf(aEl)
                    bAlt == Trim(AttrOrEmpty(bEl, <<"a", "l", "t">>))
                    aAlt == Trim(AttrOrEmpty(aEl, <<"a", "l", "t">>))
                    loc == IF bAlt # <<>> THEN <<"i", "m", "g", "[", "a", "l", "t", "=", "\"">> \o bAlt \o <<"\"", "]">>
                           ELSE <<"i", "m", "g", ":", "n", "t", "h", "(">> \o Decimal(i + 1) \o <<")">>
                IN  (IF bSrc # <<>> /\ aSrc # <<>> /\ bSrc # aSrc
                     THEN <<[type |-> "image", location |-> loc,
                             before |-> bSrc, after |-> aSrc]>>
                     ELSE <<>>)
                    \o (IF bAlt # <<>> /\ aAlt # <<>> /\ bAlt # aAlt
                        THEN <<[type |-> "text", location |-> loc,
                                before |-> <<"a", "l", "t", ":", " ">> \o bAlt, after |-> <<"a", "l", "t", ":", " ">> \o aAlt]>>
                        ELSE <<>>)
    IN  Concat([k \in 1..Len(bEls) |-> one(k - 1)])

\* structural.ts:204-215 with the second document's anchors given
linkChangesAgainst(bDoc, aDoc, aEls) ==
    LET bEls == AnchorsWithHref(bDoc)
        one(i) ==
            IF i >= Len(aEls) THEN <<>>
            ELSE
                LET bEl == bDoc[bEls[i + 1]]
                    bHref == Trim(AttrOrEmpty(bEl, <<"h", "r", "e", "f">>))
                    aHref == Trim(AttrOrEmpty(aDoc[aEls[i + 1]], <<"h", "r", "e", "f">>))
                    linkText == Slice(normText(bEl), 0, 40)
                    loc == IF linkText # <<>> THEN <<"a", " ", "\"">> \o linkText \o <<"\"">>
                           ELSE <<"a", ":", "n", "t", "h", "(">> \o Decimal(i + 1) \o <<")">>
                IN  IF bHref = <<>> \/ bHref = aHref THEN <<>>
                    ELSE IF StartsWith(bHref, <<"#">>) /\ StartsWith(aHref, <<"#">>) THEN <<>>
                    ELSE <<[type |-> "link", location |-> loc,
                            before |-> bHref, after |-> aHref]>>
    IN  Concat([k \in 1..Len(bEls) |-> one(k - 1)])

\* structural.ts:204-215: the i-th a[href] of the first document against the
\* i-th a of the second
linkChanges(bDoc, aDoc) == linkChangesAgainst(bDoc, aDoc, ByTag(aDoc, <<"a">>))

\* The content changes, all of them.
diffContentUncapped(bDoc, aDoc) ==
    LET changes ==
            Concat([k \in 1..6 |->
                      headingChanges(bDoc, aDoc,
                                     <<<<"h", "1">>, <<"h", "2">>, <<"h", "3">>, <<"h", "4">>, <<"b", "u", "t", "t", "o", "n">>, <<"l", "a", "b", "e", "l">>>>[k])])
                \o navLinkChanges(bDoc, aDoc)
                \o imageChanges(bDoc, aDoc)
                \o linkChanges(bDoc, aDoc)
    IN  changes

diffContent(bDoc, aDoc) ==
    LET changes ==
            Concat([k \in 1..6 |->
                      headingChanges(bDoc, aDoc,
                                     <<<<"h", "1">>, <<"h", "2">>, <<"h", "3">>, <<"h", "4">>, <<"b", "u", "t", "t", "o", "n">>, <<"l", "a", "b", "e", "l">>>>[k])])
                \o navLinkChanges(bDoc, aDoc)
                \o imageChanges(bDoc, aDoc)
                \o linkChanges(bDoc, aDoc)
    IN  SubSeq(changes, 1, Min(50, Len(changes)))

(***************************************************************************)
(* extractClassSelectors (structural.ts:222-231) and the selector diff     *)
(* (structural.ts:247-250)                                                 *)
(***************************************************************************)
\* The selectors of every piece of every class attribute, empty pieces too.
extractClassSelectorsUnguarded(doc) ==
    LET els == ByAttr(doc, <<"c", "l", "a", "s", "s">>) IN
    AddAllUnique(<<>>,
        Concat([k \in 1..Len(els) |->
                  LET pieces == SplitWs(Get(doc[els[k]].attrs, <<"c", "l", "a", "s", "s">>))
                  IN  [j \in 1..Len(pieces) |-> <<".">> \o pieces[j]]]))

extractClassSelectors(doc) ==
    LET els == ByAttr(doc, <<"c", "l", "a", "s", "s">>) IN
    AddAllUnique(<<>>,
        Concat([k \in 1..Len(els) |->
                  LET pieces == Tokens(Get(doc[els[k]].attrs, <<"c", "l", "a", "s", "s">>))
                  IN  [j \in 1..Len(pieces) |-> <<".">> \o pieces[j]]]))

\* [...xs].filter((s) => !ys.has(s)).slice(0, 50)
selectorsOnlyIn(xs, ys) ==
    LET only == SelectSeq(xs, LAMBDA s : s \notin Range(ys))
    IN  SubSeq(only, 1, Min(50, Len(only)))

(***************************************************************************)
(* The snapshots analyzeStructural is run on.                              *)
(***************************************************************************)
Element(tag, attrs, text) == [tag |-> tag, attrs |-> attrs, text |-> text]
Entry(key, val) == [key |-> key, val |-> val]

ElementPool ==
    {Element(<<"d", "i", "v">>, <<Entry(<<"c", "l", "a", "s", "s">>, <<"b", "a", "n", "n", "e", "r">>)>>, <<>>),
     Element(<<"h", "1">>, <<>>, <<"H", "i">>),
     Element(<<"a">>, <<Entry(<<"n", "a", "m", "e">>, <<"t", "o", "p">>)>>, <<>>),
     Element(<<"a">>, <<Entry(<<"h", "r", "e", "f">>, <<"/", "x">>)>>, <<"X">>),
     Element(<<"n", "a", "v">>, <<Entry(<<"i", "d">>, <<"m", "a", "i", "n">>), Entry(<<"c", "l", "a", "s", "s">>, <<"a", " ", "b">>)>>, <<>>),
     Element(<<"n", "a", "v">>, <<Entry(<<"i", "d">>, <<"m", "a", "i", "n">>), Entry(<<"c", "l", "a", "s", "s">>, <<"b">>)>>, <<>>),
     Element(<<"d", "i", "v">>, <<Entry(<<"i", "d">>, <<"q", "\"", "x">>), Entry(<<"c", "l", "a", "s", "s">>, <<" ", "a">>)>>, <<>>)}

MaxElements == 2
Docs == UNION {[1..n -> ElementPool] : n \in 0..MaxElements}

SmallDocs ==
    {<<>>,
     <<Element(<<"n", "a", "v">>, <<Entry(<<"i", "d">>, <<"m", "a", "i", "n">>), Entry(<<"c", "l", "a", "s", "s">>, <<"a", " ", "b">>)>>, <<>>)>>,
     <<Element(<<"d", "i", "v">>, <<Entry(<<"c", "l", "a", "s", "s">>, <<"b", "a", "n", "n", "e", "r">>)>>, <<>>)>>}

OnlyAColorRed == <<Entry(<<"a">>, <<Entry(<<"c", "o", "l", "o", "r">>, <<"r", "e", "d">>)>>)>>
StylePool ==
    {<<>>,
     OnlyAColorRed,
     <<Entry(<<"a">>, <<Entry(<<"c", "o", "l", "o", "r">>, <<"b", "l", "u", "e">>)>>), Entry(<<"b">>, <<Entry(<<"g", "a", "p">>, <<"4", "p", "x">>)>>)>>,
     <<Entry(<<"a">>, <<Entry(<<"c", "o", "l", "o", "r">>, <<"r", "e", "d">>), Entry(<<"g", "a", "p">>, <<"4", "p", "x">>)>>)>>,
     \* .a{gap:var(--m,)}: the empty fallback is the stored value
     <<Entry(<<"a">>, <<Entry(<<"g", "a", "p">>, <<>>)>>)>>}

\* A class style map of ManyClasses classes and a class attribute of
\* ManyTokens names, to reach the caps of the result lists.
ManyClasses == 60
ManyTokens == 51
ManyStyles == [n \in 1..ManyClasses |-> Entry(<<"k">> \o Decimal(n), <<Entry(<<"c", "o", "l", "o", "r">>, <<"r", "e", "d">>)>>)]
ManyTokensDoc ==
    <<Element(<<"d", "i", "v">>,
              <<Entry(<<"c", "l", "a", "s", "s">>, JoinSp([n \in 1..ManyTokens |-> <<"c">> \o Decimal(n)]))>>,
              <<>>)>>

\* Documents of headings, buttons and labels: texts that differ only in
\* white space, an empty text, ManyHeadings headings of one selector, and a
\* text of LongText characters.
HeadingPool ==
    {Element(<<"h", "1">>, <<>>, <<"H", "i">>),
     Element(<<"h", "1">>, <<Entry(<<"i", "d">>, <<"t">>)>>, <<" ", "H", "i", " ", " ">>),
     Element(<<"h", "1">>, <<Entry(<<"c", "l", "a", "s", "s">>, <<"x", " ", "y">>)>>, <<>>),
     Element(<<"h", "1">>, <<>>, <<"H", "o">>),
     Element(<<"b", "u", "t", "t", "o", "n">>, <<>>, <<"G", "o">>),
     Element(<<"l", "a", "b", "e", "l">>, <<>>, <<"H", "i">>)}
\* Documents of anchors: with and without href, and # fragments.
AnchorPool ==
    {Element(<<"a">>, <<Entry(<<"n", "a", "m", "e">>, <<"t", "o", "p">>)>>, <<>>),
     Element(<<"a">>, <<Entry(<<"h", "r", "e", "f">>, <<"/", "x">>)>>, <<"X">>),
     Element(<<"a">>, <<Entry(<<"h", "r", "e", "f">>, <<" ", "/", "y">>)>>, <<>>),
     Element(<<"a">>, <<Entry(<<"h", "r", "e", "f">>, <<"#", "s">>)>>, <<"S">>),
     Element(<<"a">>, <<Entry(<<"h", "r", "e", "f">>, <<"#", "t">>)>>, <<"S">>)}
AnchorDocs == UNION {[1..n -> AnchorPool] : n \in 0..MaxElements}
\* Documents with lines of text, some beginning with + or - characters.
TextLinePool ==
    {Element(<<>>, <<>>, <<"x">>),
     Element(<<>>, <<>>, <<"+", "x">>),
     Element(<<>>, <<>>, <<"-", "x">>),
     Element(<<>>, <<>>, <<"+", "+", "x">>),
     Element(<<>>, <<>>, <<"-", "-", " ", "x">>),
     Element(<<"h", "1">>, <<>>, <<"H", "i">>)}
TextLineDocs == UNION {[1..n -> TextLinePool] : n \in 0..MaxElements}
HeadingDocs == UNION {[1..n -> HeadingPool] : n \in 0..MaxElements}
ManyHeadings == 21
LongText == 201
ManyHeadingsDoc(text) == [n \in 1..ManyHeadings |-> Element(<<"h", "2">>, <<>>, text)]
\* More than 50 text changes, and ManyIds elements with an id, to reach the
\* caps of the content changes and of the element class changes.
ManyContentDoc(text) ==
    [n \in 1..(3 * ManyHeadings) |->
        Element(<<<<"h", "2">>, <<"h", "3">>, <<"h", "4">>>>[1 + ((n - 1) \div ManyHeadings)], <<>>, text)]
ManyIds == 41
ManyIdsDoc(cls) ==
    [n \in 1..ManyIds |->
        Element(<<"p">>, <<Entry(<<"i", "d">>, <<"e">> \o Decimal(n)), Entry(<<"c", "l", "a", "s", "s">>, cls)>>, <<>>)]
LongTextDoc(c) == <<Element(<<"h", "3">>, <<>>, [n \in 1..LongText |-> c])>>

Snapshot(doc, styles) == [doc |-> doc, classComputedStyles |-> styles]

StructInputs ==
    {<<Snapshot(d1, <<>>), Snapshot(d2, <<>>)>> : d1 \in Docs, d2 \in Docs}
    \cup {<<Snapshot(d[1], s[1]), Snapshot(d[2], s[2])>> :
             d \in SmallDocs \X SmallDocs, s \in StylePool \X StylePool}
    \cup {<<Snapshot(d[1], s[1]), Snapshot(d[2], s[2])>> :
             d \in SmallDocs \X SmallDocs,
             s \in {<<ManyStyles, OnlyAColorRed>>, <<OnlyAColorRed, ManyStyles>>}}
    \cup {<<Snapshot(d[1], <<>>), Snapshot(d[2], <<>>)>> :
             d \in {<<ManyTokensDoc, x>> : x \in SmallDocs}
                   \cup {<<x, ManyTokensDoc>> : x \in SmallDocs}}
    \cup {<<Snapshot(d1, <<>>), Snapshot(d2, <<>>)>> : d1 \in HeadingDocs, d2 \in HeadingDocs}
    \cup {<<Snapshot(d1, <<>>), Snapshot(d2, <<>>)>> : d1 \in AnchorDocs, d2 \in AnchorDocs}
    \cup {<<Snapshot(d1, <<>>), Snapshot(d2, <<>>)>> : d1 \in TextLineDocs, d2 \in TextLineDocs}
    \cup {<<Snapshot(d[1], <<>>), Snapshot(d[2], <<>>)>> :
             d \in {<<ManyHeadingsDoc(<<"A">>), ManyHeadingsDoc(<<"B">>)>>,
                    <<ManyHeadingsDoc(<<"A">>), ManyHeadingsDoc(<<"A">>)>>,
                    <<LongTextDoc("x"), LongTextDoc("y")>>,
                    <<ManyContentDoc(<<"A">>), ManyContentDoc(<<"B">>)>>,
                    <<ManyIdsDoc(<<"a">>), ManyIdsDoc(<<"b">>)>>,
                    <<ManyIdsDoc(<<"a">>), <<>>>>,
                    <<LongTextDoc("x"), <<>>>>}}

EmptySnapshot == Snapshot(<<>>, <<>>)
EmptyAnalysis ==
    [cssClassChanges |-> <<>>, elementClassChanges |-> <<>>, contentChanges |-> <<>>,
     htmlChangedLines |-> 0, addedSelectors |-> <<>>, removedSelectors |-> <<>>,
     rawHtmlDiff |-> <<>>]

(***************************************************************************)
(* analyzePixels as a state machine: SpecPixel.                            *)
(***************************************************************************)
PixelInit ==
    /\ STRIP_HEIGHT \in 1..MaxStripHeight
    /\ MAX_SHIFT \in 1..MaxMaxShift
    /\ COARSE_X \in 1..MaxCoarse
    /\ COARSE_Y \in 1..MaxCoarse
    /\ pc = "start"
    /\ beforePng \in Bitmaps
    /\ afterPng \in Bitmaps
    /\ paddedBefore = NoBitmap
    /\ paddedAfter = NoBitmap
    /\ stripY = 0
    /\ totalChanged = 0
    /\ offsets = <<>>
    /\ stripCounts = <<>>
    /\ diff = <<>>
    /\ result = [done |-> FALSE]
    \* the other computations are idle
    /\ cssPc = "idle"
    /\ cssInput = <<>>
    /\ sheet = <<>>
    /\ cssDepth = 0
    /\ classStyles = <<>>
    /\ walkStack = <<>> /\ walkRules = <<>>
    /\ structPc = "idle"
    /\ beforeSnapshot = EmptySnapshot /\ afterSnapshot = EmptySnapshot
    /\ analysis = EmptyAnalysis
    /\ cmpPc = "idle"
    /\ options = <<>> /\ pages = <<>> /\ calls = <<>> /\ report = <<>>
    /\ capPc = "idle" /\ tasks = <<>> /\ browser = <<>>

\* pixel.ts:192-204: decode, pad both to the common size, white diff image.
Normalize ==
    /\ pc = "start"
    /\ pc' = "strips"
    /\ paddedBefore' = padToSize(beforePng, maxWidth, maxHeight)
    /\ paddedAfter' = padToSize(afterPng, maxWidth, maxHeight)
    /\ diff' = [i \in 1..(maxWidth * maxHeight) |-> "white"]
    /\ totalChanged' = 0
    /\ stripY' = 0
    /\ UNCHANGED <<STRIP_HEIGHT, MAX_SHIFT, COARSE_X, COARSE_Y, beforePng, afterPng,
                   offsets, stripCounts, result>>
    /\ UNCHANGED <<cssVars, structVars, cmpVars, capVars>>

\* pixel.ts:206-237: one iteration of the strip loop.
StripStep ==
    /\ pc = "strips"
    /\ stripY < maxHeight
    /\ LET stripH == Min(STRIP_HEIGHT, maxHeight - stripY)
           offset == findBestOffset(paddedBefore.data, maxWidth, maxHeight,
                                    paddedAfter.data, maxHeight, stripY)
           aY == alignedAfterY(maxHeight, stripH, stripY, offset)
           beforeStrip == getStripBuffer(paddedBefore.data, maxWidth, stripY, stripH)
           afterStrip == getStripBuffer(paddedAfter.data, maxWidth, aY, stripH)
           changed == pixelmatchCount(beforeStrip, afterStrip)
           diffStrip == pixelmatchDiff(beforeStrip, afterStrip)
       IN  /\ totalChanged' = totalChanged + changed
           /\ offsets' = Append(offsets, offset)
           /\ stripCounts' = Append(stripCounts, changed)
           /\ diff' = [i \in 1..Len(diff) |->
                         IF /\ i > stripY * maxWidth
                            /\ i <= stripY * maxWidth + Len(diffStrip)
                         THEN diffStrip[i - stripY * maxWidth]
                         ELSE diff[i]]
    /\ stripY' = stripY + STRIP_HEIGHT
    /\ UNCHANGED <<STRIP_HEIGHT, MAX_SHIFT, COARSE_X, COARSE_Y, pc, beforePng, afterPng,
                   paddedBefore, paddedAfter, result>>
    /\ UNCHANGED <<cssVars, structVars, cmpVars, capVars>>

\* pixel.ts:239-252.  percentChanged is (totalChanged / totalPixels) * 100, kept
\* as numerator and denominator; 0 / 0 is NaN.
Finish ==
    /\ pc = "strips"
    /\ ~(stripY < maxHeight)
    /\ pc' = "done"
    /\ result' = [done |-> TRUE,
                  totalPixels |-> maxWidth * maxHeight,
                  changedPixels |-> totalChanged,
                  percentNum |-> totalChanged * 100,
                  percentDen |-> maxWidth * maxHeight,
                  beforeWidth |-> beforePng.width,
                  beforeHeight |-> beforePng.height,
                  afterHeight |-> afterPng.height]
    /\ UNCHANGED <<STRIP_HEIGHT, MAX_SHIFT, COARSE_X, COARSE_Y, beforePng, afterPng,
                   paddedBefore, paddedAfter, stripY, totalChanged, offsets,
                   stripCounts, diff>>
    /\ UNCHANGED <<cssVars, structVars, cmpVars, capVars>>

PixelNext == Normalize \/ StripStep \/ Finish

SpecPixel == PixelInit /\ [][PixelNext]_vars

(***************************************************************************)
(* The extractor as a state machine: SpecCss.                              *)
(***************************************************************************)
CssInit ==
    /\ cssPc = "input"
    /\ cssInput \in {in \in CssInputs : in.rootDefs = <<>> => in.rootSel = <<":", "r", "o", "o", "t">>}
    /\ sheet = BaseText(cssInput)
    /\ cssDepth = 0
    /\ classStyles = <<>>
    /\ walkStack = <<>> /\ walkRules = <<>>
    \* the other computations are idle
    /\ STRIP_HEIGHT = 1 /\ MAX_SHIFT = 1 /\ COARSE_X = 1 /\ COARSE_Y = 1
    /\ pc = "idle"
    /\ beforePng = NoBitmap /\ afterPng = NoBitmap
    /\ paddedBefore = NoBitmap /\ paddedAfter = NoBitmap
    /\ stripY = 0 /\ totalChanged = 0
    /\ offsets = <<>> /\ stripCounts = <<>> /\ diff = <<>>
    /\ result = [done |-> FALSE]
    /\ structPc = "idle"
    /\ beforeSnapshot = EmptySnapshot /\ afterSnapshot = EmptySnapshot
    /\ analysis = EmptyAnalysis
    /\ cmpPc = "idle"
    /\ options = <<>> /\ pages = <<>> /\ calls = <<>> /\ report = <<>>
    /\ capPc = "idle" /\ tasks = <<>> /\ browser = <<>>

\* The stylesheet put inside one more at-rule block.
WrapInAtRule ==
    /\ cssPc = "input"
    /\ cssDepth < MaxDepth
    /\ \E prelude \in Preludes : sheet' = Wrap(prelude, sheet)
    /\ cssDepth' = cssDepth + 1
    /\ UNCHANGED <<cssPc, cssInput, classStyles, walkStack, walkRules>>
    /\ UNCHANGED <<pixelVars, structVars, cmpVars, capVars>>

\* extract.ts:219: the class style map of the stylesheet.
Extract ==
    /\ cssPc = "input"
    /\ cssPc' = "parsed"
    /\ classStyles' = parseClassStylesFromCss(sheet)
    /\ UNCHANGED <<cssInput, sheet, cssDepth, walkStack, walkRules>>
    /\ UNCHANGED <<pixelVars, structVars, cmpVars, capVars>>

CssNext == WrapInAtRule \/ Extract

SpecCss == CssInit /\ [][CssNext]_vars

(***************************************************************************)
(* walkCssRules (extract.ts:52-76) step by step: SpecWalk.  A frame of     *)
(* walkStack is one active call: its text and its scan index i.  One step  *)
(* is one iteration of the loop of extract.ts:54-75, or the return of a    *)
(* call whose loop has ended.  When the outermost call has returned the    *)
(* class style map of the sheet is extracted.                              *)
(***************************************************************************)
WalkInit ==
    /\ cssPc = "walking"
    /\ cssInput \in WalkInputs
    /\ sheet = cssInput.text
    /\ cssDepth = 0
    /\ classStyles = <<>>
    /\ walkStack = <<[text |-> stripComments(cssInput.text), i |-> 0]>>
    /\ walkRules = <<>>
    \* the other computations are idle
    /\ STRIP_HEIGHT = 1 /\ MAX_SHIFT = 1 /\ COARSE_X = 1 /\ COARSE_Y = 1
    /\ pc = "idle"
    /\ beforePng = NoBitmap /\ afterPng = NoBitmap
    /\ paddedBefore = NoBitmap /\ paddedAfter = NoBitmap
    /\ stripY = 0 /\ totalChanged = 0
    /\ offsets = <<>> /\ stripCounts = <<>> /\ diff = <<>>
    /\ result = [done |-> FALSE]
    /\ structPc = "idle"
    /\ beforeSnapshot = EmptySnapshot /\ afterSnapshot = EmptySnapshot
    /\ analysis = EmptyAnalysis
    /\ cmpPc = "idle"
    /\ options = <<>> /\ pages = <<>> /\ calls = <<>> /\ report = <<>>
    /\ capPc = "idle" /\ tasks = <<>> /\ browser = <<>>

\* extract.ts:54-57: the loop of the innermost call goes on.
LoopContinues(frame) ==
    frame.i < Len(frame.text) /\ IndexOf(frame.text, "{", frame.i) # -1

\* extract.ts:56-67: the block found by one iteration.
BlockAt(frame) ==
    LET blockStart == IndexOf(frame.text, "{", frame.i)
        j == ScanBlock(frame.text, blockStart + 1)
    IN  [blockStart |-> blockStart,
         j |-> j,
         selector |-> Trim(Slice(frame.text, frame.i, blockStart)),
         body |-> Slice(frame.text, blockStart + 1, j - 1)]

\* extract.ts:55-67, 71-74: an iteration that hands the block to onRule.
WalkYield ==
    /\ cssPc = "walking"
    /\ LoopContinues(Head(walkStack))
    /\ LET b == BlockAt(Head(walkStack)) IN
       /\ ~StartsWith(b.selector, <<"@">>)
       /\ walkRules' = Append(walkRules, [selector |-> b.selector, body |-> b.body])
       /\ walkStack' = <<[Head(walkStack) EXCEPT !.i = b.j]>> \o Tail(walkStack)
    /\ UNCHANGED <<cssPc, cssInput, sheet, cssDepth, classStyles>>
    /\ UNCHANGED <<pixelVars, structVars, cmpVars, capVars>>

\* extract.ts:55-70, 74: an iteration that finds an at-rule and calls
\* walkCssRules on its body; the caller goes on at j when the call returns.
WalkRecurse ==
    /\ cssPc = "walking"
    /\ LoopContinues(Head(walkStack))
    /\ LET b == BlockAt(Head(walkStack)) IN
       /\ StartsWith(b.selector, <<"@">>)
       /\ walkStack' = <<[text |-> b.body, i |-> 0],
                         [Head(walkStack) EXCEPT !.i = b.j]>> \o Tail(walkStack)
    /\ UNCHANGED <<cssPc, cssInput, sheet, cssDepth, classStyles, walkRules>>
    /\ UNCHANGED <<pixelVars, structVars, cmpVars, capVars>>

\* extract.ts:54, 57, 76: the loop ends and the call returns.
WalkReturn ==
    /\ cssPc = "walking"
    /\ ~LoopContinues(Head(walkStack))
    /\ walkStack' = Tail(walkStack)
    /\ cssPc' = IF Tail(walkStack) = <<>> THEN "walked" ELSE "walking"
    /\ UNCHANGED <<cssInput, sheet, cssDepth, classStyles, walkRules>>
    /\ UNCHANGED <<pixelVars, structVars, cmpVars, capVars>>

\* extract.ts:115-144: the class style map of the sheet.
WalkExtract ==
    /\ cssPc = "walked"
    /\ cssPc' = "parsed"
    /\ classStyles' = parseClassStylesFromCss(sheet)
    /\ UNCHANGED <<cssInput, sheet, cssDepth, walkStack, walkRules>>
    /\ UNCHANGED <<pixelVars, structVars, cmpVars, capVars>>

WalkNext == WalkYield \/ WalkRecurse \/ WalkReturn \/ WalkExtract

SpecWalk == WalkInit /\ [][WalkNext]_vars

(***************************************************************************)
(* analyzeStructural (structural.ts:235-262) as a state machine:           *)
(* SpecStruct.  The fields of the result are computed in the order of the  *)
(* source: the patch and its changed lines, the selector diff, then the    *)
(* three change lists of the returned object.                              *)
(***************************************************************************)
StructInit ==
    /\ structPc = "input"
    /\ \E in \in StructInputs : beforeSnapshot = in[1] /\ afterSnapshot = in[2]
    /\ analysis = EmptyAnalysis
    \* the other computations are idle
    /\ STRIP_HEIGHT = 1 /\ MAX_SHIFT = 1 /\ COARSE_X = 1 /\ COARSE_Y = 1
    /\ pc = "idle"
    /\ beforePng = NoBitmap /\ afterPng = NoBitmap
    /\ paddedBefore = NoBitmap /\ paddedAfter = NoBitmap
    /\ stripY = 0 /\ totalChanged = 0
    /\ offsets = <<>> /\ stripCounts = <<>> /\ diff = <<>>
    /\ result = [done |-> FALSE]
    /\ cssPc = "idle"
    /\ cssInput = <<>>
    /\ sheet = <<>>
    /\ cssDepth = 0
    /\ classStyles = <<>>
    /\ walkStack = <<>> /\ walkRules = <<>>
    /\ cmpPc = "idle"
    /\ options = <<>> /\ pages = <<>> /\ calls = <<>> /\ report = <<>>
    /\ capPc = "idle" /\ tasks = <<>> /\ browser = <<>>

\* structural.ts:240-245
HtmlPatch ==
    /\ structPc = "input"
    /\ structPc' = "selectors"
    /\ LET htmlPatch == createTwoFilesPatch(rawHtml(beforeSnapshot.doc),
                                            rawHtml(afterSnapshot.doc))
       IN  analysis' = [analysis EXCEPT !.rawHtmlDiff = htmlPatch,
                                        !.htmlChangedLines = countChangedLines(htmlPatch)]
    /\ UNCHANGED <<beforeSnapshot, afterSnapshot>>
    /\ UNCHANGED <<pixelVars, cssVars, cmpVars, capVars>>

\* structural.ts:247-250
SelectorDiff ==
    /\ structPc = "selectors"
    /\ structPc' = "css"
    /\ LET beforeSelectors == extractClassSelectors(beforeSnapshot.doc)
           afterSelectors == extractClassSelectors(afterSnapshot.doc)
       IN  analysis' = [analysis EXCEPT
                !.addedSelectors = selectorsOnlyIn(afterSelectors, beforeSelectors),
                !.removedSelectors = selectorsOnlyIn(beforeSelectors, afterSelectors)]
    /\ UNCHANGED <<beforeSnapshot, afterSnapshot>>
    /\ UNCHANGED <<pixelVars, cssVars, cmpVars, capVars>>

\* structural.ts:254
CssClassDiff ==
    /\ structPc = "css"
    /\ structPc' = "elements"
    /\ analysis' = [analysis EXCEPT
            !.cssClassChanges = diffCssClasses(beforeSnapshot, afterSnapshot)]
    /\ UNCHANGED <<beforeSnapshot, afterSnapshot>>
    /\ UNCHANGED <<pixelVars, cssVars, cmpVars, capVars>>

\* structural.ts:255
ElementClassDiff ==
    /\ structPc = "elements"
    /\ ~diffElementClasses(beforeSnapshot.doc, afterSnapshot.doc).threw
    /\ structPc' = "content"
    /\ analysis' = [analysis EXCEPT
            !.elementClassChanges =
                diffElementClasses(beforeSnapshot.doc, afterSnapshot.doc).changes]
    /\ UNCHANGED <<beforeSnapshot, afterSnapshot>>
    /\ UNCHANGED <<pixelVars, cssVars, cmpVars, capVars>>

\* structural.ts:255, 133: the query built from an id throws, nothing
\* catches it, and analyzeStructural returns nothing
ElementClassDiffThrows ==
    /\ structPc = "elements"
    /\ diffElementClasses(beforeSnapshot.doc, afterSnapshot.doc).threw
    /\ structPc' = "threw"
    /\ UNCHANGED <<beforeSnapshot, afterSnapshot, analysis>>
    /\ UNCHANGED <<pixelVars, cssVars, cmpVars, capVars>>

\* structural.ts:256-261
ContentDiff ==
    /\ structPc = "content"
    /\ structPc' = "done"
    /\ analysis' = [analysis EXCEPT
            !.contentChanges = diffContent(beforeSnapshot.doc, afterSnapshot.doc)]
    /\ UNCHANGED <<beforeSnapshot, afterSnapshot>>
    /\ UNCHANGED <<pixelVars, cssVars, cmpVars, capVars>>

StructNext ==
    \/ HtmlPatch
    \/ SelectorDiff
    \/ CssClassDiff
    \/ ElementClassDiff
    \/ ElementClassDiffThrows
    \/ ContentDiff

SpecStruct == StructInit /\ [][StructNext]_vars

(***************************************************************************)
(* The compare command (cli.ts:30-88) and runCompare (part_002:47-150) as  *)
(* a state machine: SpecCompare.  The browser captures and the Claude      *)
(* calls are external: what they return is part of the input (pages).  The *)
(* structural analysis of the two snapshots is the one modelled above; the *)
(* same pair of pages is served at every viewport.                         *)
(***************************************************************************)
VALID_VIEWPORTS == {"mobile", "tablet", "laptop", "desktop"}
ViewportChoices == {<<"mobile">>, <<"mobile", "desktop">>, <<"phone">>}

ComparePages ==
    LET docs == SmallDocs \cup
                {<<Element(<<"d", "i", "v">>,
                           <<Entry(<<"i", "d">>, <<"q", "\"", "x">>)>>, <<>>)>>}
        styles == {<<>>, OnlyAColorRed}
    IN  [before : {Snapshot(d, st) : d \in docs, st \in styles},
         after : {Snapshot(d, st) : d \in docs, st \in styles},
         changedPixels : {0, 2},
         visualChanges : {0, 1}]

\* structural.ts:235-262 as one call: the fields runCompare and buildReport
\* read, and whether the call threw.
analyzeStructural(b, a) ==
    LET el == diffElementClasses(b.doc, a.doc) IN
    [threw |-> el.threw,
     cssClassChanges |-> diffCssClasses(b, a),
     elementClassChanges |-> el.changes,
     contentChanges |-> diffContent(b.doc, a.doc),
     htmlChangedLines |->
         countChangedLines(createTwoFilesPatch(rawHtml(b.doc), rawHtml(a.doc))),
     addedSelectors |->
         selectorsOnlyIn(extractClassSelectors(a.doc), extractClassSelectors(b.doc)),
     removedSelectors |->
         selectorsOnlyIn(extractClassSelectors(b.doc), extractClassSelectors(a.doc))]

\* part_002:14-45.  The summary sentence is kept as what determines it: the
\* number of viewports with changed pixels and the structural total.
buildNoAiSummary(viewportNames, changedPixels, structuralChanges) ==
    LET affected == IF changedPixels > 0 THEN Len(viewportNames) ELSE 0 IN
    [kind |-> IF affected = 0 /\ structuralChanges = 0 THEN "no differences" ELSE "parts",
     affected |-> affected,
     structural |-> structuralChanges]

CompareInit ==
    /\ cmpPc = "cli"
    /\ options \in [noAi : BOOLEAN, keySet : BOOLEAN, urlsValid : BOOLEAN,
                    viewports : ViewportChoices]
    /\ pages \in ComparePages
    /\ calls = <<>>
    /\ report = [overallSummary |-> <<>>, built |-> FALSE, written |-> FALSE]
    \* the other computations are idle
    /\ STRIP_HEIGHT = 1 /\ MAX_SHIFT = 1 /\ COARSE_X = 1 /\ COARSE_Y = 1
    /\ pc = "idle"
    /\ beforePng = NoBitmap /\ afterPng = NoBitmap
    /\ paddedBefore = NoBitmap /\ paddedAfter = NoBitmap
    /\ stripY = 0 /\ totalChanged = 0
    /\ offsets = <<>> /\ stripCounts = <<>> /\ diff = <<>>
    /\ result = [done |-> FALSE]
    /\ cssPc = "idle"
    /\ cssInput = <<>>
    /\ sheet = <<>>
    /\ cssDepth = 0
    /\ classStyles = <<>>
    /\ walkStack = <<>> /\ walkRules = <<>>
    /\ structPc = "idle"
    /\ beforeSnapshot = EmptySnapshot /\ afterSnapshot = EmptySnapshot
    /\ analysis = EmptyAnalysis
    /\ capPc = "idle" /\ tasks = <<>> /\ browser = <<>>

\* cli.ts:30-79: the validations of the command, each ending in exit(1), then
\* the call of runCompare.
CliAction ==
    /\ cmpPc = "cli"
    /\ cmpPc' = IF ~options.noAi /\ ~options.keySet THEN "exit_key"
                ELSE IF ~options.urlsValid THEN "exit_url"
                ELSE IF \E k \in 1..Len(options.viewports) :
                            options.viewports[k] \notin VALID_VIEWPORTS
                     THEN "exit_viewports"
                ELSE "capture"
    /\ UNCHANGED <<options, pages, calls, report>>
    /\ UNCHANGED <<pixelVars, cssVars, structVars, capVars>>

\* part_002:57-65
CaptureScreenshots ==
    /\ cmpPc = "capture"
    /\ cmpPc' = "extract"
    /\ calls' = calls \o <<"captureScreenshots", "captureScreenshots">>
    /\ UNCHANGED <<options, pages, report>>
    /\ UNCHANGED <<pixelVars, cssVars, structVars, capVars>>

\* part_002:67-74
ExtractSnapshots ==
    /\ cmpPc = "extract"
    /\ cmpPc' = "pixel"
    /\ calls' = calls \o <<"extractStructural", "extractStructural">>
    /\ UNCHANGED <<options, pages, report>>
    /\ UNCHANGED <<pixelVars, cssVars, structVars, capVars>>

\* part_002:80-85: the pixel diff runs in both modes, then the branch on noAi.
PixelDiff ==
    /\ cmpPc = "pixel"
    /\ cmpPc' = IF options.noAi THEN "structural" ELSE "visual"
    /\ calls' = Append(calls, "runPixelAnalysis")
    /\ UNCHANGED <<options, pages, report>>
    /\ UNCHANGED <<pixelVars, cssVars, structVars, capVars>>

\* part_002:85-95: analyzeStructural for every viewport, then the summary.  An
\* exception of analyzeStructural leaves runCompare; cli.ts:81-87 exits 1.
NoAiSummary ==
    /\ cmpPc = "structural"
    /\ \E r \in {analyzeStructural(pages.before, pages.after)} :
       LET totalStructural ==
               Len(options.viewports) *
                   (Len(r.cssClassChanges) + Len(r.elementClassChanges)
                        + Len(r.contentChanges))
       IN  IF r.threw
           THEN /\ cmpPc' = "failed"
                /\ calls' = Append(calls, "analyzeStructural")
                /\ UNCHANGED report
           ELSE /\ cmpPc' = "build"
                /\ calls' = calls \o [k \in 1..Len(options.viewports) |-> "analyzeStructural"]
                              \o <<"buildNoAiSummary">>
                /\ report' = [report EXCEPT !.overallSummary =
                                 buildNoAiSummary(options.viewports, pages.changedPixels,
                                                  totalStructural)]
    /\ UNCHANGED <<options, pages>>
    /\ UNCHANGED <<pixelVars, cssVars, structVars, capVars>>

\* part_002:96-106
VisualAnalysis ==
    /\ cmpPc = "visual"
    /\ cmpPc' = "summary"
    /\ calls' = Append(calls, "analyzeVisual")
    /\ UNCHANGED <<options, pages, report>>
    /\ UNCHANGED <<pixelVars, cssVars, structVars, capVars>>

\* part_002:108-110
GenerateSummary ==
    /\ cmpPc = "summary"
    /\ cmpPc' = "build"
    /\ calls' = Append(calls, "generateSummary")
    /\ report' = [report EXCEPT !.overallSummary = [kind |-> "claude"]]
    /\ UNCHANGED <<options, pages>>
    /\ UNCHANGED <<pixelVars, cssVars, structVars, capVars>>

\* part_002:114-130 and builder.ts:14-85.  buildReport runs analyzeStructural
\* again for every viewport.  StructuralAnalysis has no cssChangedLines
\* (part_003:109-122), so the sum of builder.ts:65-68 adds undefined: NaN.
BuildReport ==
    /\ cmpPc = "build"
    /\ \E r \in {analyzeStructural(pages.before, pages.after)} :
       IF r.threw
       THEN /\ cmpPc' = "failed"
            /\ calls' = calls \o <<"buildReport", "analyzeStructural">>
            /\ UNCHANGED report
       ELSE /\ cmpPc' = "write"
            /\ calls' = calls \o <<"buildReport">>
                          \o [k \in 1..Len(options.viewports) |-> "analyzeStructural"]
            /\ report' =
                 [overallSummary |-> report.overallSummary,
                  built |-> TRUE,
                  written |-> FALSE,
                  viewports |-> [k \in 1..Len(options.viewports) |->
                                    [viewport |-> options.viewports[k],
                                     visualAnalysis |-> ~options.noAi,
                                     changedPixels |-> pages.changedPixels,
                                     htmlChangedLines |-> r.htmlChangedLines,
                                     structuralAnalysis |-> r,
                                     hasChanges |->
                                         \/ ~options.noAi /\ pages.visualChanges > 0
                                         \/ pages.changedPixels > 0
                                         \/ r.htmlChangedLines > 0]],
                  totalVisualChanges |->
                      Len(options.viewports) *
                          (IF ~options.noAi THEN pages.visualChanges
                                            ELSE pages.changedPixels),
                  totalStructuralChanges |-> "NaN",
                  modelUsed |-> IF options.noAi THEN "none" ELSE "model",
                  aiMode |-> ~options.noAi]
    /\ UNCHANGED <<options, pages>>
    /\ UNCHANGED <<pixelVars, cssVars, structVars, capVars>>

\* part_002:132-136
WriteReport ==
    /\ cmpPc = "write"
    /\ cmpPc' = "done"
    /\ calls' = calls \o <<"writeImages", "renderReport", "writeReport">>
    /\ report' = [report EXCEPT !.written = TRUE]
    /\ UNCHANGED <<options, pages>>
    /\ UNCHANGED <<pixelVars, cssVars, structVars, capVars>>

CompareNext ==
    \/ CliAction
    \/ CaptureScreenshots
    \/ ExtractSnapshots
    \/ PixelDiff
    \/ NoAiSummary
    \/ VisualAnalysis
    \/ GenerateSummary
    \/ BuildReport
    \/ WriteReport

SpecCompare == CompareInit /\ [][CompareNext]_vars

(***************************************************************************)
(* captureScreenshots (screenshot.ts:11-79) and extractStructural          *)
(* (extract.ts:146-238) as a state machine: SpecCapture.  The two have the *)
(* same shape: launch the browser, run one callback per viewport under     *)
(* Promise.all, close the browser in a finally block.  A callback opens a  *)
(* context, then a page, works on the page inside try, and closes the      *)
(* context in finally.  Every awaited call of the browser can reject.      *)
(***************************************************************************)
VIEWPORTS == {"mobile", "tablet", "laptop", "desktop"}
MaxViewports == 3
CaptureFunctions == {"captureScreenshots", "extractStructural"}

\* screenshot.ts:16, extract.ts:151
ConfigChoices == {S \in SUBSET VIEWPORTS : Cardinality(S) <= MaxViewports}

AllResolved == \A v \in DOMAIN tasks : tasks[v].pc = "resolved"
SomeRejected == \E v \in DOMAIN tasks : tasks[v].pc = "rejected"

\* Promise.all has settled and the continuation of the await has not run.
Settled == capPc = "awaiting" /\ (AllResolved \/ SomeRejected)

\* A callback runs when an awaited call of its settles.  The continuation
\* of a settled Promise.all is a microtask: it runs before any of them.
TaskMayRun(v) ==
    /\ capPc \in {"awaiting", "closing", "returned", "threw"}
    /\ v \in DOMAIN tasks
    /\ ~Settled

CaptureInit ==
    /\ capPc = "launch"
    /\ \E configs \in ConfigChoices :
          tasks = [v \in configs |-> [pc |-> "unstarted", context |-> "none", failed |-> FALSE]]
    /\ \E fn \in CaptureFunctions :
          browser = [fn |-> fn, launched |-> FALSE, open |-> FALSE, closeCalls |-> 0,
                     rejected |-> FALSE, capturingAtClose |-> {}]
    \* the other computations are idle
    /\ STRIP_HEIGHT = 1 /\ MAX_SHIFT = 1 /\ COARSE_X = 1 /\ COARSE_Y = 1
    /\ pc = "idle"
    /\ beforePng = NoBitmap /\ afterPng = NoBitmap
    /\ paddedBefore = NoBitmap /\ paddedAfter = NoBitmap
    /\ stripY = 0 /\ totalChanged = 0
    /\ offsets = <<>> /\ stripCounts = <<>> /\ diff = <<>>
    /\ result = [done |-> FALSE]
    /\ cssPc = "idle"
    /\ cssInput = <<>>
    /\ sheet = <<>>
    /\ cssDepth = 0
    /\ classStyles = <<>>
    /\ walkStack = <<>> /\ walkRules = <<>>
    /\ structPc = "idle"
    /\ beforeSnapshot = EmptySnapshot /\ afterSnapshot = EmptySnapshot
    /\ analysis = EmptyAnalysis
    /\ cmpPc = "idle"
    /\ options = <<>> /\ pages = <<>> /\ calls = <<>> /\ report = <<>>

\* screenshot.ts:22-28: the browser is launched and configs.map starts every
\* callback, each up to its first await.
Launch ==
    /\ capPc = "launch"
    /\ capPc' = "awaiting"
    /\ browser' = [browser EXCEPT !.launched = TRUE, !.open = TRUE]
    /\ tasks' = [v \in DOMAIN tasks |-> [tasks[v] EXCEPT !.pc = "newContext"]]
    /\ UNCHANGED <<pixelVars, cssVars, structVars, cmpVars>>

\* screenshot.ts:22: chromium.launch rejects, outside the try block.
LaunchFails ==
    /\ capPc = "launch"
    /\ capPc' = "threw"
    /\ UNCHANGED <<tasks, browser>>
    /\ UNCHANGED <<pixelVars, cssVars, structVars, cmpVars>>

\* screenshot.ts:31-34: browser.newContext resolves, or rejects; it rejects
\* when the browser has been closed.
NewContext(v) ==
    /\ TaskMayRun(v)
    /\ tasks[v].pc = "newContext"
    /\ \E ok \in {b \in BOOLEAN : b => browser.open} :
          tasks' = [tasks EXCEPT ![v] =
                       IF ok THEN [@ EXCEPT !.pc = "newPage", !.context = "open"]
                       ELSE [@ EXCEPT !.pc = "rejected"]]
    /\ UNCHANGED <<capPc, browser>>
    /\ UNCHANGED <<pixelVars, cssVars, structVars, cmpVars>>

\* screenshot.ts:35: context.newPage, before the try block: when it rejects
\* the callback rejects without closing its context.
NewPage(v) ==
    /\ TaskMayRun(v)
    /\ tasks[v].pc = "newPage"
    /\ \E ok \in {b \in BOOLEAN : b => browser.open} :
          tasks' = [tasks EXCEPT ![v] =
                       [@ EXCEPT !.pc = IF ok THEN "capturing" ELSE "rejected"]]
    /\ UNCHANGED <<capPc, browser>>
    /\ UNCHANGED <<pixelVars, cssVars, structVars, cmpVars>>

\* screenshot.ts:36-69, extract.ts:165-229: the navigation and the work on
\* the page end, with the result or with an exception (a navigation
\* timeout, a closed target); the finally block is entered.
Capture(v) ==
    /\ TaskMayRun(v)
    /\ tasks[v].pc = "capturing"
    /\ \E ok \in {b \in BOOLEAN : b => browser.open} :
          tasks' = [tasks EXCEPT ![v] = [@ EXCEPT !.pc = "finally", !.failed = ~ok]]
    /\ UNCHANGED <<capPc, browser>>
    /\ UNCHANGED <<pixelVars, cssVars, structVars, cmpVars>>

\* screenshot.ts:70-72: context.close(), then the callback settles.
CloseContext(v) ==
    /\ TaskMayRun(v)
    /\ tasks[v].pc = "finally"
    /\ tasks' = [tasks EXCEPT ![v] =
                    [@ EXCEPT !.context = "closed",
                              !.pc = IF tasks[v].failed THEN "rejected" ELSE "resolved"]]
    /\ UNCHANGED <<capPc, browser>>
    /\ UNCHANGED <<pixelVars, cssVars, structVars, cmpVars>>

\* screenshot.ts:27, 76-78: Promise.all resolves when every callback has
\* resolved and rejects with the first rejection; either way the finally
\* block calls browser.close(), which closes the contexts that are open.
CloseBrowser ==
    /\ Settled
    /\ capPc' = "closing"
    /\ browser' = [browser EXCEPT
                      !.open = FALSE,
                      !.closeCalls = @ + 1,
                      !.rejected = SomeRejected,
                      !.capturingAtClose = {v \in DOMAIN tasks : tasks[v].pc = "capturing"}]
    /\ tasks' = [v \in DOMAIN tasks |->
                    [tasks[v] EXCEPT !.context = IF @ = "open" THEN "closed" ELSE @]]
    /\ UNCHANGED <<pixelVars, cssVars, structVars, cmpVars>>

\* screenshot.ts:75, 78: the function returns the results, or rejects.
Return ==
    /\ capPc = "closing"
    /\ capPc' = IF browser.rejected THEN "threw" ELSE "returned"
    /\ UNCHANGED <<tasks, browser>>
    /\ UNCHANGED <<pixelVars, cssVars, structVars, cmpVars>>

CaptureNext ==
    \/ Launch
    \/ LaunchFails
    \/ \E v \in VIEWPORTS : NewContext(v)
    \/ \E v \in VIEWPORTS : NewPage(v)
    \/ \E v \in VIEWPORTS : Capture(v)
    \/ \E v \in VIEWPORTS : CloseContext(v)
    \/ CloseBrowser
    \/ Return

SpecCapture == CaptureInit /\ [][CaptureNext]_vars

(***************************************************************************)
(* Claims about the pixel diff.                                            *)
(***************************************************************************)
\* The strips processed so far: strip i starts at row StripStart(i).
StripStart(i) == (i - 1) * STRIP_HEIGHT
StripH(i) == Min(STRIP_HEIGHT, maxHeight - StripStart(i))
Candidates(i) ==
    {dy \in (-MAX_SHIFT)..MAX_SHIFT : InBounds(maxHeight, StripH(i), StripStart(i), dy)}
SADOf(i, dy) ==
    CandidateSAD(paddedBefore.data, maxWidth, maxHeight,
                 paddedAfter.data, maxHeight, StripStart(i), dy)
\* The candidates of strip i that attain the minimum score.
Minimal(i) ==
    {dy \in Candidates(i) : \A e \in Candidates(i) : ScoreLeq(SADOf(i, dy), SADOf(i, e))}

NonEmpty(png) == png.width >= 1 /\ png.height >= 1

RECURSIVE SumSeq(_)
SumSeq(s) == IF s = <<>> THEN 0 ELSE Head(s) + SumSeq(Tail(s))

\* C1: comparing a bitmap of non-zero area with itself reports
\* changedPixels == 0 and percentChanged == 0, whatever the strip height, the
\* maximum shift and the sampling strides.
C1_SelfComparisonClean ==
    (pc = "done" /\ NonEmpty(beforePng) /\ afterPng = beforePng)
        => (result.changedPixels = 0 /\ result.percentNum = 0)

\* B is A shifted down by k rows, the vacated top rows opaque white.
ShiftDown(png, k) ==
    [width |-> png.width, height |-> png.height + k,
     data |-> [i \in 1..(png.width * k) |-> White] \o png.data]
IsShift(k) == NonEmpty(beforePng) /\ afterPng = ShiftDown(beforePng, k)
\* The strips whose shifted region [y + k, y + k + stripH) lies inside B.
Contained(k) ==
    {i \in 1..Len(offsets) : StripStart(i) + k + StripH(i) <= afterPng.height}
\* changedPixels with every strip's offset forced to 0.
ForcedZeroTotal ==
    SumSeq([i \in 1..Len(offsets) |->
              StripChangedAt(paddedBefore, paddedAfter, StripStart(i), 0)])

C3_TieSmallestMagnitude ==
    \A i \in 1..Len(offsets) :
        /\ offsets[i] \in Minimal(i)
        /\ \A e \in Minimal(i) : Abs(offsets[i]) <= Abs(e)

\* What the loop of findBestOffset returns: among the in-bounds candidates
\* that attain the minimum (finite) score the lowest, i.e. most negative, one;
\* 0 when every candidate scores Infinity.
TieLowestOffset ==
    \A i \in 1..Len(offsets) :
        IF \A e \in Candidates(i) : SADOf(i, e).inf
        THEN offsets[i] = 0
        ELSE /\ offsets[i] \in Minimal(i)
             /\ \A e \in Minimal(i) : offsets[i] <= e

\* A tie between a negative offset and 0, settled for the negative one.
TieSettledForNegative ==
    \E i \in 1..Len(offsets) :
        /\ 0 \in Minimal(i)
        /\ offsets[i] < 0
        /\ Cardinality(Minimal(i)) >= 2

\* C9: both canvases handed to the strip loop are max(w1,w2) wide and
\* max(h1,h2) high, and so are the canvases of the swapped call.
NormalizerDims(a, b) ==
    LET mw == Max(a.width, b.width)
        mh == Max(a.height, b.height)
        pa == padToSize(a, mw, mh)
        pb == padToSize(b, mw, mh)
    IN  <<pa.width, pa.height, pb.width, pb.height>>

C9_NormalizerDimensions ==
    pc \in {"strips", "done"} =>
        /\ paddedBefore.width = Max(beforePng.width, afterPng.width)
        /\ paddedAfter.width = Max(beforePng.width, afterPng.width)
        /\ paddedBefore.height = Max(beforePng.height, afterPng.height)
        /\ paddedAfter.height = Max(beforePng.height, afterPng.height)
        /\ Len(paddedBefore.data) = paddedBefore.width * paddedBefore.height
        /\ Len(paddedAfter.data) = paddedAfter.width * paddedAfter.height
        /\ NormalizerDims(afterPng, beforePng)
              = <<paddedBefore.width, paddedBefore.height,
                  paddedAfter.width, paddedAfter.height>>

\* Both bitmaps were padded: one is narrower, the other shorter.
C9_Witness ==
    /\ pc = "strips"
    /\ NonEmpty(beforePng) /\ NonEmpty(afterPng)
    /\ beforePng.width < afterPng.width
    /\ beforePng.height > afterPng.height

\* C10: in each padded canvas the original's pixels keep their place and every
\* pixel outside the original's bounds is opaque white.
PaddedContent(padded, png) ==
    \A x \in 0..(maxWidth - 1), y \in 0..(maxHeight - 1) :
        PixelAt(padded, x, y) =
            IF x < png.width /\ y < png.height THEN PixelAt(png, x, y) ELSE White

C10_NormalizerContent ==
    pc \in {"strips", "done"} =>
        /\ PaddedContent(paddedBefore, beforePng)
        /\ PaddedContent(paddedAfter, afterPng)

\* A bitmap holding a black pixel in its second row was widened.
C10_Witness ==
    /\ pc = "strips"
    /\ beforePng.width = 1 /\ beforePng.height >= 2
    /\ afterPng.width = 2
    /\ PixelAt(beforePng, 0, 1) = Black
    /\ PixelAt(paddedBefore, 0, 1) = Black
    /\ PixelAt(paddedBefore, 1, 0) = White

(***************************************************************************)
(* Aggregates, degenerate sizes, offsets and strips (SpecPixel).           *)
(***************************************************************************)
\* C11: for two bitmaps of non-zero area totalPixels is maxW * maxH,
\* changedPixels is the sum of the per-strip counts, percentChanged is
\* changedPixels / totalPixels * 100, and so 0 <= changedPixels <= totalPixels
\* and 0 <= percentChanged <= 100.
C11_AggregateStatistics ==
    (pc = "done" /\ NonEmpty(beforePng) /\ NonEmpty(afterPng)) =>
        /\ result.totalPixels = maxWidth * maxHeight
        /\ result.changedPixels = SumSeq(stripCounts)
        /\ \A i \in 1..Len(stripCounts) :
               stripCounts[i] = StripChangedAt(paddedBefore, paddedAfter,
                                               StripStart(i), offsets[i])
        /\ result.percentDen = result.totalPixels
        /\ result.percentDen > 0
        /\ result.percentNum = result.changedPixels * 100
        /\ 0 <= result.changedPixels /\ result.changedPixels <= result.totalPixels
        /\ 0 <= result.percentNum /\ result.percentNum <= 100 * result.percentDen

\* Two bitmaps of different sizes, several strips, some pixels changed but
\* not all.
C11_Witness ==
    /\ pc = "done" /\ NonEmpty(beforePng) /\ NonEmpty(afterPng)
    /\ beforePng.width # afterPng.width
    /\ Len(stripCounts) >= 2
    /\ stripCounts[1] > 0 /\ stripCounts[2] > 0
    /\ result.changedPixels < result.totalPixels

\* C12: when the common canvas has width 0 or height 0 the result has
\* totalPixels == 0, changedPixels == 0 and a defined percentChanged of 0 (no
\* division by zero), and no strip was processed.
C12_ZeroAreaShortCircuit ==
    (pc = "done" /\ (maxWidth = 0 \/ maxHeight = 0)) =>
        /\ result.totalPixels = 0
        /\ result.changedPixels = 0
        /\ result.percentDen # 0
        /\ result.percentNum = 0
        /\ offsets = <<>>

\* C15: for every strip the offset d returned by findBestOffset lies in
\* [-MAX_SHIFT, MAX_SHIFT], the region [y + d, y + d + stripH) lies within the
\* second image (d is 0 when no candidate fits), and the score of d is at most
\* the score of every other in-bounds candidate.
C15_OffsetSelection ==
    \A i \in 1..Len(offsets) :
        LET d == offsets[i]
            y == StripStart(i)
        IN  /\ -MAX_SHIFT <= d /\ d <= MAX_SHIFT
            /\ d = findBestOffset(paddedBefore.data, maxWidth, maxHeight,
                                  paddedAfter.data, maxHeight, y)
            /\ Candidates(i) = {} => d = 0
            /\ Candidates(i) # {} =>
                   /\ 0 <= y + d /\ y + d + StripH(i) <= paddedAfter.height
                   /\ \A e \in Candidates(i) : ScoreLeq(SADOf(i, d), SADOf(i, e))

\* A strip with several in-bounds candidates of different scores, the chosen
\* one not 0 and strictly better than 0.
C15_Witness ==
    \E i \in 1..Len(offsets) :
        /\ Cardinality(Candidates(i)) >= 3
        /\ offsets[i] > 0
        /\ ~ScoreLeq(SADOf(i, 0), SADOf(i, offsets[i]))
        /\ \E e \in Candidates(i) : e < 0 /\ ~ScoreLeq(SADOf(i, e), SADOf(i, offsets[i]))

\* The diff pixel pixelmatch draws at column c of row r of the strip
\* that starts at row y and was compared at offset d.
ExpectedDiffPixel(y, h, d, r, c) ==
    LET aY == alignedAfterY(maxHeight, h, y, d) IN
    IF PixelAt(paddedBefore, c, r) # PixelAt(paddedAfter, c, aY + (r - y))
    THEN "diff" ELSE "same"

\* C16: the strips start at 0, STRIP_HEIGHT, 2 * STRIP_HEIGHT, ... in
\* increasing order, are pairwise disjoint and cover every row of
\* [0, maxHeight) exactly once, the last one truncated; the diff strip of the
\* strip at row y is written to the rows [y, y + stripH) of the diff image
\* and to no other row.
C16_StripPartition ==
    pc \in {"strips", "done"} =>
        /\ stripY = Len(offsets) * STRIP_HEIGHT
        /\ \A i \in 1..Len(offsets) :
               /\ StripStart(i) < maxHeight
               /\ StripH(i) >= 1
               /\ StripH(i) = STRIP_HEIGHT \/ StripStart(i) + StripH(i) = maxHeight
        /\ \A r \in 0..(maxHeight - 1) :
               LET owners == {i \in 1..Len(offsets) :
                                StripStart(i) <= r /\ r < StripStart(i) + StripH(i)}
               IN  /\ Cardinality(owners) <= 1
                   /\ pc = "done" => Cardinality(owners) = 1
                   /\ r < stripY => Cardinality(owners) = 1
                   /\ \A c \in 0..(maxWidth - 1) :
                          diff[r * maxWidth + c + 1] =
                              IF owners = {} THEN "white"
                              ELSE LET i == CHOOSE o \in owners : TRUE
                                   IN  ExpectedDiffPixel(StripStart(i), StripH(i),
                                                         offsets[i], r, c)
        /\ Len(diff) = maxWidth * maxHeight

\* Mid-loop: a full strip was written, a truncated strip is still to come, and
\* the written rows hold changed pixels while the rows below are untouched.
C16_Witness ==
    /\ pc = "strips"
    /\ Len(offsets) = 1
    /\ STRIP_HEIGHT = 2 /\ maxHeight = 3 /\ maxWidth >= 1
    /\ \E j \in 1..(2 * maxWidth) : diff[j] = "diff"
    /\ \A j \in (2 * maxWidth + 1)..Len(diff) : diff[j] = "white"

(***************************************************************************)
(* Properties of the class style extractor (SpecCss).                      *)
(***************************************************************************)
\* The class names a generated selector lists.
ClassesOf(selector) ==
    {SliceFrom(Trim(seg), 1) : seg \in {Split(selector, ",")[k] : k \in 1..Len(Split(selector, ","))}}

Parsed == cssPc = "parsed"

\* C5: a bare-class rule wrapped in one or more nested at-rule blocks gives
\* the same class style map as the same stylesheet at top level.
C5_NestingTransparent ==
    (Parsed /\ cssDepth >= 1 /\ cssInput.selector \in BareSelectors)
        => classStyles = parseClassStylesFromCss(BaseText(cssInput))

\* A bare-class rule with no :root block, two levels deep, has been extracted
\* and both listed classes carry a property.
C5_Witness ==
    /\ Parsed /\ cssDepth = 2
    /\ cssInput.rootDefs = <<>>
    /\ cssInput.selector = <<".", "y", ",", " ", ".", "x">>
    /\ Len(classStyles) = 2
    /\ \A k \in 1..2 : Has(classStyles[k].val, <<"c", "o", "l", "o", "r">>)

\* The value the :root block gives a custom property: its last definition.
Defined(rootDefs, name) == \E k \in 1..Len(rootDefs) : rootDefs[k].name = name
DefinedValue(rootDefs, name) ==
    LET last == CHOOSE k \in 1..Len(rootDefs) :
                    /\ rootDefs[k].name = name
                    /\ \A j \in (k + 1)..Len(rootDefs) : rootDefs[j].name # name
    IN  rootDefs[last].value

\* What C6 says one segment of a declaration value resolves to.
ExpectedSeg(seg, rootDefs) ==
    IF seg.kind = "lit" THEN seg.text
    ELSE IF Defined(rootDefs, seg.name) THEN DefinedValue(rootDefs, seg.name)
    ELSE IF seg.hasFallback THEN Trim(seg.fallback)
    ELSE <<"v", "a", "r", "(">> \o seg.name \o <<")">>

ExpectedValue(segs, rootDefs) ==
    Concat([k \in 1..Len(segs) |-> ExpectedSeg(segs[k], rootDefs)])

\* The declaration of a list that decides a property: the last one naming it.
Decides(decls, k) == \A j \in (k + 1)..Len(decls) : decls[j].prop # decls[k].prop

Stripped == stripComments(sheet)
WalkDone == cssPc \in {"walked", "parsed"}
IsPrefixOf(s, t) == Len(s) <= Len(t) /\ SubSeq(t, 1, Len(s)) = s

\* Opening minus closing braces among the first p characters of text.
BraceDepth(text, p) ==
    Cardinality({k \in 1..p : text[k] = "{"}) - Cardinality({k \in 1..p : text[k] = "}"})
\* The first p characters are a run of complete blocks: no closing brace
\* without its opening brace, every block closed, the last character the
\* closing brace of the last block.
BalancedPrefix(text, p) ==
    /\ \A q \in 0..p : BraceDepth(text, q) >= 0
    /\ BraceDepth(text, p) = 0
    /\ p = 0 \/ text[p] = "}"
Balanced(text) ==
    /\ \A q \in 0..Len(text) : BraceDepth(text, q) >= 0
    /\ BraceDepth(text, Len(text)) = 0
\* Where an unbalanced text fails: the end of its longest balanced prefix.
PointOfFailure(text) ==
    CHOOSE p \in 0..Len(text) :
        /\ BalancedPrefix(text, p)
        /\ \A q \in (p + 1)..Len(text) : ~BalancedPrefix(text, q)

\* Each loop iteration moves the scan index of its call forward, each
\* recursive call is on a strictly shorter text.
WalkProgress ==
    [][cssPc = "walking" =>
          LET old == Head(walkStack) IN
          \/ /\ Len(walkStack') = Len(walkStack)
             /\ Head(walkStack').text = old.text
             /\ Head(walkStack').i > old.i
          \/ /\ Len(walkStack') = Len(walkStack) + 1
             /\ walkStack'[2].text = old.text
             /\ walkStack'[2].i > old.i
             /\ Len(Head(walkStack').text) < Len(old.text)
          \/ walkStack' = Tail(walkStack)]_vars

\* Every walk ends: a non-negative measure decreases with every step, and a
\* step is possible until the class style map is extracted.
RECURSIVE FramesMeasure(_)
FramesMeasure(stack) ==
    IF stack = <<>> THEN 0
    ELSE Len(Head(stack).text) - Head(stack).i + 1 + FramesMeasure(Tail(stack))
WalkMeasure == FramesMeasure(walkStack) + (IF cssPc = "parsed" THEN 0 ELSE 1)
WalkTerminates ==
    [][/\ WalkMeasure' < WalkMeasure
       /\ WalkMeasure' >= 0
       /\ (cssPc' = "walking") = (walkStack' # <<>>)]_vars
\* The steps yield what the recursive definition yields.
WalkAgrees == WalkDone => walkRules = walkCssRules(Stripped)

\* The rules of the complete blocks before any point of the text are yielded
\* first, whatever follows them.
PrefixRulesYielded ==
    WalkDone =>
        \A p \in 0..Len(Stripped) :
            BalancedPrefix(Stripped, p) =>
                IsPrefixOf(walkCssRules(Slice(Stripped, 0, p)), walkRules)

\* C17: on every input, unmatched opening or closing braces included, the
\* walk ends; on an unbalanced text it stops at the point of failure, and the
\* rules yielded are those of the balanced blocks that precede it.
C17_StopsAtFailure ==
    /\ WalkAgrees
    /\ PrefixRulesYielded
    /\ (WalkDone /\ ~Balanced(Stripped)) =>
           walkRules = walkCssRules(Slice(Stripped, 0, PointOfFailure(Stripped)))

\* In text, the closing brace at position c (from 1) matches the opening brace
\* at position o: the braces strictly between them are balanced and none of
\* them closes the block earlier.
Matches(text, o, c) ==
    /\ o < c /\ c <= Len(text)
    /\ text[o] = "{" /\ text[c] = "}"
    /\ \A q \in o..(c - 1) : BraceDepth(text, q) - BraceDepth(text, o - 1) >= 1
    /\ BraceDepth(text, c) = BraceDepth(text, o - 1)

\* The block a loop iteration hands on (to onRule, or to the recursive call)
\* is exact: the body is the text strictly between an opening brace and its
\* matching closing brace, the selector the trimmed text between the end of
\* the previous block and that opening brace.
ExactBlock(frame, selector, body) ==
    \E o \in (frame.i + 1)..Len(frame.text) :
        /\ \A q \in (frame.i + 1)..(o - 1) : frame.text[q] # "{"
        /\ selector = Trim(SubSeq(frame.text, frame.i + 1, o - 1))
        /\ \E c \in (o + 1)..Len(frame.text) :
               /\ Matches(frame.text, o, c)
               /\ body = SubSeq(frame.text, o + 1, c - 1)

\* C18: for every (selector, body) pair walkCssRules yields, on every input,
\* body is exactly the text strictly between an opening brace and its matching
\* closing brace, and selector is the trimmed text between the end of the
\* previous block and that opening brace.
C18_RuleBoundaries ==
    [][(cssPc = "walking" /\ Len(walkRules') = Len(walkRules) + 1) =>
          ExactBlock(Head(walkStack), walkRules'[Len(walkRules')].selector,
                     walkRules'[Len(walkRules')].body)]_vars

\* The same on the texts whose braces are balanced, at-rule bodies included.
ExactOnBalanced ==
    [][(cssPc = "walking" /\ Balanced(Stripped) /\ walkStack' # Tail(walkStack)) =>
          /\ Balanced(Head(walkStack).text)
          /\ IF Len(walkRules') = Len(walkRules) + 1
             THEN ExactBlock(Head(walkStack), walkRules'[Len(walkRules')].selector,
                             walkRules'[Len(walkRules')].body)
             ELSE \E sel \in {Trim(SubSeq(Head(walkStack).text, Head(walkStack).i + 1, o))
                                   : o \in 0..Len(Head(walkStack).text)} :
                      ExactBlock(Head(walkStack), sel, Head(walkStack').text)]_vars

\* The items of the sheet with a segment that is the bare class selector of c,
\* and the declarations of p in them, in text order.
ItemsFor(c) ==
    {k \in 1..Len(cssInput.items) :
        \E s \in 1..Len(cssInput.items[k].segs) : cssInput.items[k].segs[s].cls = c}
DeclsOf(c, p) ==
    UNION {{<<k, d>> : d \in {e \in 1..Len(cssInput.items[k].decls) :
                                 cssInput.items[k].decls[e].prop = p}} : k \in ItemsFor(c)}
SheetClasses == {<<"x">>, <<"y">>, <<"c", "o", "n", "s", "t", "r", "u", "c", "t", "o", "r">>}
SheetProps == {<<"c", "o", "l", "o", "r">>, <<"g", "a", "p">>, <<"w", "i", "d", "t", "h">>, <<"f", "o", "n", "t", "-", "f", "a", "m", "i", "l", "y">>}
SheetParsed == cssPc = "parsed" /\ cssInput.kind = "rules"

\* C19: every entry (class c, property p) of the ClassStyleMap comes from a
\* rule with a selector segment that trims to exactly .c and declares p, with
\* p in the allow-list; descendant, compound, pseudo-class and attribute
\* segments contribute no entry; no property outside the allow-list is kept.
C19_MapSoundness ==
    /\ (cssPc = "parsed" /\ cssInput.kind = "text") => classStyles = <<>>
    /\ SheetParsed =>
           \A i \in 1..Len(classStyles) :
               LET c == classStyles[i].key
                   props == classStyles[i].val
               IN  /\ c \in SheetClasses
                   /\ ItemsFor(c) # {}
                   /\ \A j \in 1..Len(props) :
                          /\ props[j].key \in PROP_SET
                          /\ props[j].key \notin {<<"w", "i", "d", "t", "h">>, <<"f", "o", "n", "t", "-", "f", "a", "m", "i", "l", "y">>}
                          /\ DeclsOf(c, props[j].key) # {}

\* A compound and an attribute selector declare color, a bare rule for x
\* declares only font-family and another width and color: x keeps color alone,
\* from the bare rule.
C19_Witness ==
    /\ SheetParsed
    /\ Len(cssInput.items) = 2
    /\ cssInput.items[1].segs = <<Seg(<<".", "x", ":", "h", "o", "v", "e", "r">>, <<>>), Seg(<<" ", ".", "y", ".", "x">>, <<>>)>>
    /\ cssInput.items[1].decls = <<Decl(<<"c", "o", "l", "o", "r">>, <<"r", "e", "d">>, <<"r", "e", "d">>)>>
    /\ cssInput.items[2].segs = <<Seg(<<".", "y">>, <<"y">>), Seg(<<" ", ".", "x", " ">>, <<"x">>)>>
    /\ cssInput.items[2].decls = <<Decl(<<"w", "i", "d", "t", "h">>, <<"1", "p", "x">>, <<"1", "p", "x">>), Decl(<<"c", "o", "l", "o", "r">>, <<"g", "r", "e", "e", "n">>, <<"g", "r", "e", "e", "n">>)>>
    /\ classStyles = <<Entry(<<"y">>, <<Entry(<<"c", "o", "l", "o", "r">>, <<"g", "r", "e", "e", "n">>)>>), Entry(<<"x">>, <<Entry(<<"c", "o", "l", "o", "r">>, <<"g", "r", "e", "e", "n">>)>>)>>

\* The last declaration of p for c in text order.
LastDecl(c, p) ==
    LET kd == CHOOSE a \in DeclsOf(c, p) :
                  \A b \in DeclsOf(c, p) : b[1] < a[1] \/ (b[1] = a[1] /\ b[2] <= a[2])
    IN  cssInput.items[kd[1]].decls[kd[2]]
LastDeclaredWinsFor(c) ==
    \A p \in SheetProps \cap PROP_SET :
        IF DeclsOf(c, p) = {}
        THEN ~Has(classStyles, c) \/ ~Has(Get(classStyles, c), p)
        ELSE /\ Has(classStyles, c)
             /\ Has(Get(classStyles, c), p)
             /\ Get(Get(classStyles, c), p) = LastDecl(c, p).resolved

\* C20: for every class c and allow-listed property p the value stored for
\* (c, p) is the resolved value of the last declaration of p, in text order
\* (a nested rule counted where it stands), among the rules with a bare .c
\* segment; a property declared only in an earlier rule is retained.
C20_LastDeclaredWins ==
    SheetParsed => \A c \in SheetClasses : LastDeclaredWinsFor(c)

\* The same for the classes whose name is no member of Object.prototype.
LastDeclaredWinsOwnNames ==
    SheetParsed => \A c \in SheetClasses \ ObjectPrototypeKeys : LastDeclaredWinsFor(c)
\* Two rules for x, the second inside an at-rule: color from the second, gap
\* retained from the first.
LastDeclaredWinsReached ==
    /\ SheetParsed
    /\ Len(cssInput.items) = 2
    /\ cssInput.items[1].decls = <<Decl(<<"c", "o", "l", "o", "r">>, <<"v", "a", "r", "(", "-", "-", "c", ")">>, <<"b", "l", "u", "e">>), Decl(<<"g", "a", "p">>, <<"4", "p", "x">>, <<"4", "p", "x">>)>>
    /\ cssInput.items[2].decls = <<Decl(<<"c", "o", "l", "o", "r">>, <<"r", "e", "d">>, <<"r", "e", "d">>)>>
    /\ cssInput.items[2].nested
    /\ ItemsFor(<<"x">>) = {1, 2}
    /\ Get(classStyles, <<"x">>) = <<Entry(<<"c", "o", "l", "o", "r">>, <<"r", "e", "d">>), Entry(<<"g", "a", "p">>, <<"4", "p", "x">>)>>

(***************************************************************************)
(* Properties of the structural differ (SpecStruct).                       *)
(***************************************************************************)
SelfComparison == beforeSnapshot = afterSnapshot

\* C4: analyzeStructural on the same snapshot on both sides returns empty
\* change lists, empty selector lists and zero changed lines.
C4_SelfComparisonEmpty ==
    (structPc = "done" /\ SelfComparison) =>
        /\ analysis.cssClassChanges = <<>>
        /\ analysis.elementClassChanges = <<>>
        /\ analysis.contentChanges = <<>>
        /\ analysis.addedSelectors = <<>>
        /\ analysis.removedSelectors = <<>>
        /\ analysis.htmlChangedLines = 0

CssClassesDone == structPc \in {"elements", "content", "done", "threw"}

NotDeclared == <<"(", "n", "o", "t", " ", "d", "e", "c", "l", "a", "r", "e", "d", ")">>

\* Class a is in the second map only (resp. the first map only), with the
\* single property color: red.
AOnlyAfter ==
    /\ ~Has(beforeSnapshot.classComputedStyles, <<"a">>)
    /\ Has(afterSnapshot.classComputedStyles, <<"a">>)
    /\ Get(afterSnapshot.classComputedStyles, <<"a">>) = <<Entry(<<"c", "o", "l", "o", "r">>, <<"r", "e", "d">>)>>
AOnlyBefore ==
    /\ ~Has(afterSnapshot.classComputedStyles, <<"a">>)
    /\ Has(beforeSnapshot.classComputedStyles, <<"a">>)
    /\ Get(beforeSnapshot.classComputedStyles, <<"a">>) = <<Entry(<<"c", "o", "l", "o", "r">>, <<"r", "e", "d">>)>>

ChangesFor(cls) ==
    {k \in 1..Len(analysis.cssClassChanges) : analysis.cssClassChanges[k].className = cls}

DifferingClasses ==
    {cls \in Range(Keys(beforeSnapshot.classComputedStyles))
                \cup Range(Keys(afterSnapshot.classComputedStyles)) :
        LET bProps == PropsOf(beforeSnapshot.classComputedStyles, cls)
            aProps == PropsOf(afterSnapshot.classComputedStyles, cls)
        IN  \E prop \in Range(Keys(bProps)) \cup Range(Keys(aProps)) :
                ValueOf(bProps, prop) # ValueOf(aProps, prop)}

\* The number of elements whose class attribute has cls as a whole token.
ElementsWith(doc, cls) ==
    Cardinality({k \in 1..Len(doc) :
                   HasAttr(doc[k], <<"c", "l", "a", "s", "s">>) /\ cls \in Range(Tokens(Get(doc[k].attrs, <<"c", "l", "a", "s", "s">>)))})

\* The only form a change for a may have when color: red is on one side:
\* the four fields of CssClassChange and no classification.
OneSidedChange(ch, red1, red2) ==
    /\ DOMAIN ch = {"className", "changedProperties", "elementCountBefore",
                    "elementCountAfter"}
    /\ ch.changedProperties = <<[property |-> <<"c", "o", "l", "o", "r">>, before |-> red1, after |-> red2]>>
    /\ ch.elementCountBefore = ElementsWith(beforeSnapshot.doc, <<"a">>)
    /\ ch.elementCountAfter = ElementsWith(afterSnapshot.doc, <<"a">>)

SelectorsDone == structPc \in {"css", "elements", "content", "done", "threw"}

\* The .c selectors of the classes c that occur in a class attribute.
SelectorsOf(doc) ==
    {<<".">> \o c : c \in UNION {Range(Tokens(Get(doc[k].attrs, <<"c", "l", "a", "s", "s">>))) :
                                k \in {j \in 1..Len(doc) : HasAttr(doc[j], <<"c", "l", "a", "s", "s">>)}}}

NoDuplicates(s) == \A i, j \in 1..Len(s) : i # j => s[i] # s[j]

\* The list is the set difference, or 50 members of it when it has more.
IsCappedDifference(list, difference) ==
    /\ Range(list) \subseteq difference
    /\ NoDuplicates(list)
    /\ Len(list) = Min(50, Cardinality(difference))

\* C8: addedSelectors holds only selectors of classes that occur in the
\* second document and not in the first, removedSelectors only those of the
\* first and not the second; a difference of at most 50 members is listed
\* exactly; the two lists are disjoint.
C8_SelectorSetDiff ==
    SelectorsDone =>
        /\ IsCappedDifference(analysis.addedSelectors,
                              SelectorsOf(afterSnapshot.doc) \ SelectorsOf(beforeSnapshot.doc))
        /\ IsCappedDifference(analysis.removedSelectors,
                              SelectorsOf(beforeSnapshot.doc) \ SelectorsOf(afterSnapshot.doc))
        /\ Range(analysis.addedSelectors) \cap Range(analysis.removedSelectors) = {}

\* A div of class banner is in the second document only, next to an element
\* the first document has too, and .banner was reported as added.
C8_Witness ==
    /\ SelectorsDone
    /\ beforeSnapshot.doc # <<>>
    /\ <<".", "b", "a", "n", "n", "e", "r">> \notin SelectorsOf(beforeSnapshot.doc)
    /\ \E k \in 1..Len(afterSnapshot.doc) :
           afterSnapshot.doc[k] = Element(<<"d", "i", "v">>, <<Entry(<<"c", "l", "a", "s", "s">>, <<"b", "a", "n", "n", "e", "r">>)>>, <<>>)
    /\ <<".", "b", "a", "n", "n", "e", "r">> \in Range(analysis.addedSelectors)
    /\ <<".", "b", "a", "n", "n", "e", "r">> \notin Range(analysis.removedSelectors)
    /\ analysis.removedSelectors # <<>>

(***************************************************************************)
(* Robustness of the structural differ (SpecStruct).                       *)
(***************************************************************************)
\* C13: no operation of the structural differ throws, whatever the id, class,
\* href, src or alt attribute values of the two documents: analyzeStructural
\* always runs to its return and the lists it returns are within their caps.
C13_NeverThrows ==
    /\ structPc # "threw"
    /\ structPc = "done" =>
           /\ Len(analysis.cssClassChanges) <= 60
           /\ Len(analysis.elementClassChanges) <= 40
           /\ Len(analysis.contentChanges) <= 50

(***************************************************************************)
(* The compare command (SpecCompare).                                      *)
(***************************************************************************)
Called(f) == \E k \in 1..Len(calls) : calls[k] = f
ValidArguments ==
    /\ options.urlsValid
    /\ \A k \in 1..Len(options.viewports) : options.viewports[k] \in VALID_VIEWPORTS

\* With --no-ai, runCompare never calls analyzeVisual or generateSummary and a
\* missing ANTHROPIC_API_KEY does not end the command.
NoAiMakesNoClaudeCall ==
    (cmpPc # "idle" /\ options.noAi) =>
        /\ ~Called("analyzeVisual") /\ ~Called("generateSummary")
        /\ cmpPc # "exit_key"
        /\ cmpPc = "done" =>
               /\ report.built /\ report.written
               /\ ~report.aiMode /\ report.modelUsed = "none"
               /\ report.overallSummary.kind # "claude"

\* C14: with --no-ai no execution of runCompare calls analyzeVisual or
\* generateSummary, a missing ANTHROPIC_API_KEY does not abort the run, and the
\* report is still built and written from the pixel and structural analyses:
\* a run with valid arguments is never abandoned before the report is written.
C14_NoAiMode ==
    /\ NoAiMakesNoClaudeCall
    /\ (cmpPc # "idle" /\ options.noAi /\ ValidArguments) => cmpPc # "failed"

(***************************************************************************)
(* Properties of the class style diff, the element class diff and the      *)
(* content diff (SpecStruct).                                              *)
(***************************************************************************)
Declared(styles, cls, prop) == Has(styles, cls) /\ Has(Get(styles, cls), prop)

\* The value a side declares, or the marker of the side that declares none.
DeclaredOrMarker(styles, cls, prop) ==
    IF Declared(styles, cls, prop) THEN Get(Get(styles, cls), prop) ELSE NotDeclared

BeforeStyles == beforeSnapshot.classComputedStyles
AfterStyles == afterSnapshot.classComputedStyles

\* Declared on both sides with different values, or on one side only.
PropertyDiffers(cls, prop) ==
    \/ /\ Declared(BeforeStyles, cls, prop)
       /\ Declared(AfterStyles, cls, prop)
       /\ Get(Get(BeforeStyles, cls), prop) # Get(Get(AfterStyles, cls), prop)
    \/ Declared(BeforeStyles, cls, prop) # Declared(AfterStyles, cls, prop)

ClassesOfMaps == Range(Keys(BeforeStyles)) \cup Range(Keys(AfterStyles))
PropsOfClass(cls) ==
    Range(Keys(PropsOf(BeforeStyles, cls))) \cup Range(Keys(PropsOf(AfterStyles, cls)))
DifferingProps(cls) == {prop \in PropsOfClass(cls) : PropertyDiffers(cls, prop)}
ClassesThatDiffer == {cls \in ClassesOfMaps : DifferingProps(cls) # {}}

ClassDiffExact ==
    /\ \A cls \in ClassesOfMaps : ChangesFor(cls) # {} <=> cls \in ClassesThatDiffer
    /\ \A k \in 1..Len(analysis.cssClassChanges) :
          LET ch == analysis.cssClassChanges[k]
              cp == ch.changedProperties
          IN  /\ {cp[i].property : i \in 1..Len(cp)} = DifferingProps(ch.className)
              /\ \A i, j \in 1..Len(cp) : i # j => cp[i].property # cp[j].property
              /\ \A i \in 1..Len(cp) :
                    /\ cp[i].before = DeclaredOrMarker(BeforeStyles, ch.className, cp[i].property)
                    /\ cp[i].after = DeclaredOrMarker(AfterStyles, ch.className, cp[i].property)

\* C21: when no more than 60 classes differ, a class is in the result of
\* diffCssClasses iff some property has different values in the two maps,
\* a property one side declares and the other does not counting as
\* different; its changedProperties are exactly those properties, once
\* each, with the value of each side and "(not declared)" for the side that
\* does not declare it.
C21_ClassDiffExactness ==
    (CssClassesDone /\ Cardinality(ClassesThatDiffer) <= 60) => ClassDiffExact

NoEmptyValue(styles) ==
    \A i \in 1..Len(styles) : \A j \in 1..Len(styles[i].val) : styles[i].val[j].val # <<>>

\* The same on maps that store no empty value.
ClassDiffExactOnNonEmptyValues ==
    (/\ CssClassesDone
     /\ Cardinality(ClassesThatDiffer) <= 60
     /\ NoEmptyValue(BeforeStyles) /\ NoEmptyValue(AfterStyles)) => ClassDiffExact

ClassDiffExactReached ==
    /\ CssClassesDone
    /\ NoEmptyValue(BeforeStyles) /\ NoEmptyValue(AfterStyles)
    /\ Len(analysis.cssClassChanges) = 2
    /\ \E k \in 1..2 : Len(analysis.cssClassChanges[k].changedProperties) = 2

ImpactOf(cls) == ElementsWith(beforeSnapshot.doc, cls) + ElementsWith(afterSnapshot.doc, cls)

\* C22: the list returned by diffCssClasses is in non-increasing order of
\* elementCountBefore + elementCountAfter, each count being the number of
\* elements of that document whose class attribute has the class as a whole
\* token; a changed class that is not among the at most 60 returned has no
\* larger impact than any class that is returned.
C22_ImpactOrdering ==
    CssClassesDone =>
        LET changes == analysis.cssClassChanges
        IN  /\ \A k \in 1..Len(changes) :
                  /\ changes[k].elementCountBefore
                        = ElementsWith(beforeSnapshot.doc, changes[k].className)
                  /\ changes[k].elementCountAfter
                        = ElementsWith(afterSnapshot.doc, changes[k].className)
            /\ \A i, j \in 1..Len(changes) :
                  i < j => Impact(changes[i]) >= Impact(changes[j])
            /\ \A cls \in DifferingClasses :
                  ChangesFor(cls) = {} =>
                      /\ Len(changes) = 60
                      /\ \A k \in 1..Len(changes) : Impact(changes[k]) >= ImpactOf(cls)

\* 61 classes changed; the one that was pushed last has elements, was
\* moved to the front, and a class without elements was left out.
C22_Witness ==
    /\ CssClassesDone
    /\ Cardinality(DifferingClasses) = 61
    /\ Len(analysis.cssClassChanges) = 60
    /\ analysis.cssClassChanges[1].className = <<"a">>
    /\ Keys(BeforeStyles)[1] # <<"a">>
    /\ Impact(analysis.cssClassChanges[1]) = 2
    /\ Impact(analysis.cssClassChanges[2]) = 0

ElementsDone == structPc \in {"content", "done"}
SemanticTags == {<<"n", "a", "v">>, <<"h", "e", "a", "d", "e", "r">>, <<"f", "o", "o", "t", "e", "r">>, <<"m", "a", "i", "n">>, <<"a", "s", "i", "d", "e">>}

IdOf(el) == AttrOrEmpty(el, <<"i", "d">>)
FirstWithId(doc, k) ==
    /\ IdOf(doc[k]) # <<>>
    /\ \A j \in 1..(k - 1) : IdOf(doc[j]) # IdOf(doc[k])

\* The first elements of a tag in the two documents are the pair that was
\* matched through a shared id.
MatchedThroughId(tag) ==
    /\ ByTag(beforeSnapshot.doc, tag) # <<>>
    /\ ByTag(afterSnapshot.doc, tag) # <<>>
    /\ LET b == ByTag(beforeSnapshot.doc, tag)[1]
           a == ByTag(afterSnapshot.doc, tag)[1]
       IN  /\ FirstWithId(beforeSnapshot.doc, b)
           /\ FirstWithId(afterSnapshot.doc, a)
           /\ IdOf(beforeSnapshot.doc[b]) = IdOf(afterSnapshot.doc[a])

IdentityKeysUnique ==
    ElementsDone =>
        \A i, j \in 1..Len(analysis.elementClassChanges) :
            i # j => analysis.elementClassChanges[i].identifier
                        # analysis.elementClassChanges[j].identifier

IdentityKeysUniqueReached ==
    /\ ElementsDone
    /\ Len(beforeSnapshot.doc) = 2
    /\ IdOf(beforeSnapshot.doc[1]) # <<>>
    /\ IdOf(beforeSnapshot.doc[1]) = IdOf(beforeSnapshot.doc[2])
    /\ beforeSnapshot.doc[1] # beforeSnapshot.doc[2]
    /\ Len(analysis.elementClassChanges) = 2
    /\ \A k \in 1..2 :
          analysis.elementClassChanges[k].classesBefore
              = Tokens(AttrOrEmpty(beforeSnapshot.doc[1], <<"c", "l", "a", "s", "s">>))

\* C23: in the result of diffElementClasses no identity key is in two
\* entries, and a pair of elements that was matched through a shared id is
\* not compared again through its tag: it has no entry under the tag's key.
C23_ComparedOnce ==
    /\ IdentityKeysUnique
    /\ ElementsDone =>
          \A tag \in SemanticTags :
              MatchedThroughId(tag) =>
                  \A k \in 1..Len(analysis.elementClassChanges) :
                      analysis.elementClassChanges[k].identifier # <<"<">> \o tag \o <<">">>

ContentDone == structPc = "done"
HeadingSelectors == <<<<"h", "1">>, <<"h", "2">>, <<"h", "3">>, <<"h", "4">>, <<"b", "u", "t", "t", "o", "n">>, <<"l", "a", "b", "e", "l">>>>

\* The normalised text of the i-th match of a selector, counted from 0.
TextOf(doc, sel, i) == normText(doc[ByTag(doc, sel)[i + 1]])

\* The indices at which both documents have a match, below 20.
ComparedIndices(sel) ==
    {i \in 0..19 : /\ i < Len(ByTag(beforeSnapshot.doc, sel))
                   /\ i < Len(ByTag(afterSnapshot.doc, sel))}
TextDiffersAt(sel) ==
    SetToSeq({i \in ComparedIndices(sel) :
                /\ TextOf(beforeSnapshot.doc, sel, i) # <<>>
                /\ TextOf(beforeSnapshot.doc, sel, i) # TextOf(afterSnapshot.doc, sel, i)})

\* The text changes of the result that are located at a match of sel.
HeadingEntries(sel) ==
    SelectSeq(analysis.contentChanges,
              LAMBDA ch : /\ ch.type = "text"
                          /\ StartsWith(ch.location, sel)
                          /\ Len(ch.location) > Len(sel)
                          /\ ch.location[Len(sel) + 1] \in {"#", ".", ":"})

FirstChars(text, n) == SubSeq(text, 1, Min(n, Len(text)))

HeadingTextCut ==
    /\ ContentDone
    /\ Len(analysis.contentChanges) = 1
    /\ Len(analysis.contentChanges[1].before) = 200
    /\ Len(beforeSnapshot.doc[1].text) > 200
HeadingTextNormalised ==
    /\ ContentDone
    /\ Len(beforeSnapshot.doc) = 2 /\ Len(afterSnapshot.doc) = 2
    /\ \A k \in 1..2 : beforeSnapshot.doc[k].tag = <<"h", "1">> /\ afterSnapshot.doc[k].tag = <<"h", "1">>
    /\ beforeSnapshot.doc[1].text = <<"H", "i">> /\ afterSnapshot.doc[1].text = <<" ", "H", "i", " ", " ">>
    /\ beforeSnapshot.doc[2].text = <<>> /\ afterSnapshot.doc[2].text = <<"H", "o">>
    /\ analysis.contentChanges = <<>>

LinkEntries == SelectSeq(analysis.contentChanges, LAMBDA ch : ch.type = "link")
HrefOf(el) == Trim(AttrOrEmpty(el, <<"h", "r", "e", "f">>))
AnchorsOf(doc) == [k \in 1..Len(ByTag(doc, <<"a">>)) |-> doc[ByTag(doc, <<"a">>)[k]]]

\* e is the change of the n-th anchors of the two lists.
IsLinkChangeOf(e, bAnchors, aAnchors, n) ==
    /\ n <= Len(bAnchors) /\ n <= Len(aAnchors)
    /\ e.before = HrefOf(bAnchors[n])
    /\ e.after = HrefOf(aAnchors[n])
    /\ e.before # e.after
    /\ ~(StartsWith(e.before, <<"#">>) /\ StartsWith(e.after, <<"#">>))

AnchorsPositional ==
    /\ AnchorsOf(beforeSnapshot.doc) = AnchorsOf(afterSnapshot.doc) => LinkEntries = <<>>
    /\ \/ \A k \in 1..Len(LinkEntries) :
             \E n \in 1..Len(beforeSnapshot.doc) :
                 IsLinkChangeOf(LinkEntries[k], AnchorsOf(beforeSnapshot.doc),
                                AnchorsOf(afterSnapshot.doc), n)
       \/ \A k \in 1..Len(LinkEntries) :
             \E n \in 1..Len(beforeSnapshot.doc) :
                 IsLinkChangeOf(LinkEntries[k],
                                SelectSeq(AnchorsOf(beforeSnapshot.doc),
                                          LAMBDA el : HasAttr(el, <<"h", "r", "e", "f">>)),
                                SelectSeq(AnchorsOf(afterSnapshot.doc),
                                          LAMBDA el : HasAttr(el, <<"h", "r", "e", "f">>)), n)

\* C25: every link change is the change of the n-th anchors that one
\* selector matches in the two documents, whose hrefs differ and are not
\* both # fragments; documents with the same sequence of anchors have no
\* link change.
C25_AnchorHrefPositional ==
    (ContentDone /\ Len(analysis.contentChanges) < 50) => AnchorsPositional

EveryAnchorHasHref(doc) ==
    \A k \in 1..Len(doc) : doc[k].tag = <<"a">> => HasAttr(doc[k], <<"h", "r", "e", "f">>)

\* The same for documents in which every anchor has an href.
AnchorsPositionalWithHrefs ==
    (/\ ContentDone /\ Len(analysis.contentChanges) < 50
     /\ EveryAnchorHasHref(beforeSnapshot.doc)
     /\ EveryAnchorHasHref(afterSnapshot.doc)) => AnchorsPositional

AnchorsPositionalReached ==
    /\ ContentDone
    /\ EveryAnchorHasHref(beforeSnapshot.doc)
    /\ EveryAnchorHasHref(afterSnapshot.doc)
    /\ Len(AnchorsOf(beforeSnapshot.doc)) = 2
    /\ Len(AnchorsOf(afterSnapshot.doc)) = 2
    /\ HrefOf(beforeSnapshot.doc[1]) = <<"#", "s">> /\ HrefOf(afterSnapshot.doc[1]) = <<"#", "t">>
    /\ Len(LinkEntries) = 1
    /\ LinkEntries[1].after = <<"/", "y">>

\* The lists before they are cut.
UncappedCss == sortByImpact(classChangesOf(beforeSnapshot, afterSnapshot))
UncappedElements ==
    matchByTag(beforeSnapshot.doc, afterSnapshot.doc,
               <<<<"n", "a", "v">>, <<"h", "e", "a", "d", "e", "r">>, <<"f", "o", "o", "t", "e", "r">>, <<"m", "a", "i", "n">>, <<"a", "s", "i", "d", "e">>>>,
               matchById(beforeSnapshot.doc, afterSnapshot.doc,
                         ByAttr(beforeSnapshot.doc, <<"i", "d">>),
                         [changes |-> <<>>, seen |-> <<>>, threw |-> FALSE])).changes
UncappedContent ==
    Concat([s \in 1..Len(HeadingSelectors) |->
              headingChanges(beforeSnapshot.doc, afterSnapshot.doc, HeadingSelectors[s])])
        \o navLinkChanges(beforeSnapshot.doc, afterSnapshot.doc)
        \o imageChanges(beforeSnapshot.doc, afterSnapshot.doc)
        \o linkChanges(beforeSnapshot.doc, afterSnapshot.doc)
UncappedSelectors(doc1, doc2) ==
    SelectSeq(extractClassSelectors(doc1),
              LAMBDA s : s \notin Range(extractClassSelectors(doc2)))

CappedPrefix(list, uncapped, cap) ==
    /\ Len(list) = Min(cap, Len(uncapped))
    /\ list = SubSeq(uncapped, 1, Len(list))

\* C26: a result holds at most 60 cssClassChanges, 40 elementClassChanges,
\* 50 contentChanges, 50 addedSelectors and 50 removedSelectors, and each
\* list is the prefix of that length of the list before it was cut.
C26_ResultListCaps ==
    ContentDone =>
        /\ CappedPrefix(analysis.cssClassChanges, UncappedCss, 60)
        /\ CappedPrefix(analysis.elementClassChanges, UncappedElements, 40)
        /\ CappedPrefix(analysis.contentChanges, UncappedContent, 50)
        /\ CappedPrefix(analysis.addedSelectors,
                        UncappedSelectors(afterSnapshot.doc, beforeSnapshot.doc), 50)
        /\ CappedPrefix(analysis.removedSelectors,
                        UncappedSelectors(beforeSnapshot.doc, afterSnapshot.doc), 50)

\* More than 50 content changes were found and 50 are returned.
C26_Witness ==
    /\ ContentDone
    /\ Len(UncappedContent) > 50
    /\ Len(analysis.contentChanges) = 50
\* The other caps are reached too.
ElementCapReached ==
    ContentDone /\ Len(UncappedElements) > 40 /\ Len(analysis.elementClassChanges) = 40
CssCapReached ==
    ContentDone /\ Len(UncappedCss) > 60 /\ Len(analysis.cssClassChanges) = 60
SelectorCapReached ==
    /\ ContentDone
    /\ Len(UncappedSelectors(beforeSnapshot.doc, afterSnapshot.doc)) > 50
    /\ Len(analysis.removedSelectors) = 50

HtmlDone == structPc # "input"
BeforeLines == rawHtml(beforeSnapshot.doc)
AfterLines == rawHtml(afterSnapshot.doc)

\* The lines the unified diff adds and removes.
AddedAndRemoved ==
    IF BeforeLines = AfterLines THEN 0
    ELSE LET script == EditScript(BeforeLines, AfterLines)
         IN  Cardinality({k \in 1..Len(script) : script[k][1] \in {"+", "-"}})

ChangedLineCount ==
    /\ analysis.htmlChangedLines = AddedAndRemoved
    /\ analysis.htmlChangedLines = 0 <=> BeforeLines = AfterLines

\* C27: htmlChangedLines is the number of added plus removed lines of the
\* unified diff of the two documents, the two file header lines left out,
\* also when lines of the documents begin with + or -; it is 0 exactly
\* when the documents are identical.
C27_ChangedLineCount == HtmlDone => ChangedLineCount

NoDoubledSign(lines) ==
    \A k \in 1..Len(lines) : ~StartsWith(lines[k], <<"+", "+">>) /\ ~StartsWith(lines[k], <<"-", "-">>)

\* The same for documents none of whose lines begins with ++ or --.
ChangedLineCountSingleSign ==
    (HtmlDone /\ NoDoubledSign(BeforeLines) /\ NoDoubledSign(AfterLines)) => ChangedLineCount

ChangedLineCountReached ==
    /\ HtmlDone
    /\ NoDoubledSign(BeforeLines) /\ NoDoubledSign(AfterLines)
    /\ \E k \in 1..Len(BeforeLines) : StartsWith(BeforeLines[k], <<"-">>)
    /\ \E k \in 1..Len(AfterLines) : StartsWith(AfterLines[k], <<"+">>)
    /\ analysis.htmlChangedLines = 3

(***************************************************************************)
(* Properties of the report (SpecCompare).                                 *)
(***************************************************************************)
ReportBuilt == cmpPc \in {"write", "done"}

\* The StructuralAnalysis holds a structural change of some kind.
AnyStructuralChange(sa) ==
    \/ sa.cssClassChanges # <<>>
    \/ sa.elementClassChanges # <<>>
    \/ sa.contentChanges # <<>>
    \/ sa.addedSelectors # <<>>
    \/ sa.removedSelectors # <<>>
    \/ sa.htmlChangedLines > 0

VisibleChange(vp) ==
    \/ vp.changedPixels > 0
    \/ vp.visualAnalysis /\ pages.visualChanges > 0

\* C28: the hasChanges of a viewport of the report is true iff the viewport
\* has changed pixels or reported visual changes, or its StructuralAnalysis
\* holds a structural change: a non-empty cssClassChanges,
\* elementClassChanges, contentChanges, addedSelectors or removedSelectors,
\* or htmlChangedLines > 0.
C28_HasChanges ==
    ReportBuilt =>
        \A k \in 1..Len(report.viewports) :
            report.viewports[k].hasChanges
                <=> \/ VisibleChange(report.viewports[k])
                    \/ AnyStructuralChange(report.viewports[k].structuralAnalysis)

\* What holds: a viewport flagged as changed has a change of one of these
\* kinds, and a viewport with a visible change or changed lines is flagged.
HasChangesOneWay ==
    ReportBuilt =>
        \A k \in 1..Len(report.viewports) :
            LET vp == report.viewports[k] IN
            /\ vp.hasChanges =>
                  VisibleChange(vp) \/ AnyStructuralChange(vp.structuralAnalysis)
            /\ (VisibleChange(vp) \/ vp.structuralAnalysis.htmlChangedLines > 0)
                  => vp.hasChanges

HasChangesOneWayReached ==
    /\ ReportBuilt
    /\ Len(report.viewports) = 2
    /\ report.viewports[2].hasChanges
    /\ report.viewports[2].changedPixels = 0
    /\ report.viewports[2].structuralAnalysis.htmlChangedLines > 0
    /\ report.viewports[2].structuralAnalysis.cssClassChanges # <<>>

(***************************************************************************)
(* Completeness of the pixel diff (SpecPixel).                             *)
(***************************************************************************)
CanvasesEqual == paddedBefore.data = paddedAfter.data

\* C29: when analyzePixels reports changedPixels == 0 the two padded
\* canvases have no differing pixel: no change of the second image, in
\* whatever rows or columns it lies, is skipped by the alignment.
C29_NoMissedChange ==
    (pc = "done" /\ result.changedPixels = 0) => CanvasesEqual

AllOffsetsZero == \A i \in 1..Len(offsets) : offsets[i] = 0

\* The same for the runs in which every strip is compared in place.
NoMissedChangeInPlace ==
    (pc = "done" /\ AllOffsetsZero /\ result.changedPixels = 0) => CanvasesEqual

NoMissedChangeInPlaceReached ==
    /\ pc = "done"
    /\ Len(offsets) = 2
    /\ AllOffsetsZero
    /\ result.changedPixels = 0
    /\ \E i \in 1..Len(paddedBefore.data) : paddedBefore.data[i] = Black
    /\ beforePng.height # afterPng.height

\* A black pixel in the last row of the second image, under an all-white
\* first image, is not counted: the last strip is compared one row up.
MissedChangeReached ==
    /\ pc = "done"
    /\ beforePng = [width |-> 1, height |-> 2, data |-> <<White, White>>]
    /\ afterPng = [width |-> 1, height |-> 2, data |-> <<White, Black>>]
    /\ offsets = <<0, -1>>
    /\ result.changedPixels = 0

(***************************************************************************)
(* Properties of the browser lifecycle (SpecCapture).                      *)
(***************************************************************************)
CaptureEnded == capPc \in {"returned", "threw"}

\* The launched browser is closed once when the function ends, and no
\* context is left open.
ClosedOnce ==
    /\ browser.closeCalls <= 1
    /\ (CaptureEnded /\ browser.launched) =>
          /\ browser.closeCalls = 1
          /\ \A v \in DOMAIN tasks : tasks[v].context # "open"
    /\ (CaptureEnded /\ ~browser.launched) => browser.closeCalls = 0

\* C30: in captureScreenshots and extractStructural the launched browser is
\* closed exactly once on every path, every context that was opened is
\* closed, and browser.close() is not called while the page of a viewport
\* is still navigating or capturing.
C30_BrowserLifecycle ==
    capPc # "idle" => (ClosedOnce /\ browser.capturingAtClose = {})

\* What holds: the browser is closed once and no context stays open; and
\* when no callback rejects, close() runs after every capture has ended.
BrowserClosedOnce == capPc # "idle" => ClosedOnce
CloseAfterCaptures ==
    (capPc # "idle" /\ ~browser.rejected) => browser.capturingAtClose = {}

BrowserClosedOnceReached ==
    /\ capPc = "threw"
    /\ browser.closeCalls = 1
    /\ Cardinality(DOMAIN tasks) = 3
    /\ \E v \in DOMAIN tasks : tasks[v].pc = "rejected" /\ tasks[v].context = "closed"
                                 /\ ~tasks[v].failed
    /\ \E v \in DOMAIN tasks : tasks[v].pc = "resolved"
CloseAfterCapturesReached ==
    /\ capPc = "returned"
    /\ Cardinality(DOMAIN tasks) = 3
    /\ browser.closeCalls = 1

====
